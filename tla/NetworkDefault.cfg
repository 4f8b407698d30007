SPECIFICATION ContextSpec
CONSTANTS
  Visitor = {v1}
  NetTenant = {t1}
  ApiKey = {k1}
  ValidatorId = {w1}
  Absent = Absent
PROPERTY DefaultIsServed
CHECK_DEADLOCK FALSE
