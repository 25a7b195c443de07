CONSTANTS
  MaxPort = 100
  ShortMax = 31
  ByteMax = 31
  UriSize = 31
  Pages <- MCPages
  Links <- MCLinks

SPECIFICATION Spec

PROPERTY LinkIsFollowed
