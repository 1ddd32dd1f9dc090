SPECIFICATION ArgumentSpec
CONSTANTS
    CODE_HASH_BYTES = 1
    AccWidth = 16
    Scripts <- MCScripts
    Foreign <- MCForeign
    Networks <- MCNetworks
    TypoChars = {49, 116, 84}
    MaxTypos = 2
    Decimals = 2
    AmountTexts <- MCAmountTexts
INVARIANTS
    RoundTrip
    SlipIsCaught
    OneSpelling
    PaysWhatWasTyped
