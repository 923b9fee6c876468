CONSTANTS
  Files <- MCFiles
  Logs <- MCLogs
  Databases <- MCDatabases
  MaxLoads = 2
  SizeLimit = 4
SPECIFICATION Spec
INVARIANTS FieldsAreTheLines ChangesAreChanges PartsAreTheLog
CHECK_DEADLOCK FALSE
