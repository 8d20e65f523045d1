SPECIFICATION SystemSpec
CONSTANTS
  Retry = 2
  Boards = {"ESP32", "ESP8266"}
  MaxResets = 1
  Peer = {"a", "b", "c"}
  NoPeer = "none"
  Asks <- MCAsks
  WEBSERVER_MAX_CLIENTS = 2
  Room = 5
  WEBSERVER_CLIENT_TIMEOUT = 4
  WEBSERVER_CLIENT_PING_INTERVAL = 1
  NUMBER_OF_TOPICS = 6
  NUMBER_OF_TOPICS_EXTRA = 1
  NUMBER_OF_OPT_TOPICS = 2
  RulesSize = 4
  BUFFER_SIZE = 2
  MaxLines = 1
  Forms <- MCForms
  ReadSizes = {1, 40}
  WEBSERVER_BUFFER_SIZE = 13
  Client = {"c1"}
  File = {"manifest", "pages"}
  MaxUploads = 3
  MaxFailures = 2
  MaxRestarts = 2

  
  
PROPERTIES
  Rejoins
  EveryoneLeaves
  
CHECK_DEADLOCK FALSE
