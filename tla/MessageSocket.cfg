SPECIFICATION SocketSpec
CONSTANTS
  Base = 4
  HeaderSize = 2
  Messages <- MCMessages
  MaxSent = 3
INVARIANT NoMessageWaits
PROPERTIES
  ImplementsChannel
  ChannelIsFair
CHECK_DEADLOCK FALSE
