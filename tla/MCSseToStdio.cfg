SPECIFICATION SseFairSpec
CONSTANT Script <- InitializeAndAsk
PROPERTY EndpointDiscovered
CHECK_DEADLOCK FALSE
