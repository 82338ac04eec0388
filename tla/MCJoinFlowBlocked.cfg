SPECIFICATION JoinSpec
CONSTANTS
  Teams = {t, u}
PROPERTY OneNeverBlocksTheRest
