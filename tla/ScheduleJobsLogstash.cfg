SPECIFICATION Spec
CONSTANTS
  es1 = es1
  es2 = es2
  kb = kb
  ls = ls
  None = None
  Elasticsearch = {es1}
  Kibana = {}
  Logstash = {ls}
INVARIANTS SupportedIsScheduled
