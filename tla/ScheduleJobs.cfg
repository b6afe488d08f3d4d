SPECIFICATION Spec
CONSTANTS
  es1 = es1
  es2 = es2
  kb = kb
  ls = ls
  None = None
  Elasticsearch = {es1, es2}
  Kibana = {kb}
  Logstash = {}
INVARIANTS TypeOK RegisteredIsReady SettledIsExplained LeftoversAreExplained SupportedIsScheduled
