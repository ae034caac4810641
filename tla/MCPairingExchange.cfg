SPECIFICATION ExchangeSpec
PROPERTY PairingSucceeds
CHECK_DEADLOCK FALSE
