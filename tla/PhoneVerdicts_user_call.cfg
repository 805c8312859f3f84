CONSTANT MaxReports = 1
SPECIFICATION PhoneSpec
PROPERTY UserCallStands
CHECK_DEADLOCK FALSE
