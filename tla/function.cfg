CONSTANTS
    f1 = f1
    f2 = f2
    cache = cache
    b1 = b1
    b2 = b2
    b3 = b3
    small = small
    large = large
    fragileSmall = fragileSmall
    fragileLarge = fragileLarge
    Nothing = Nothing
    Functions = {f1, f2, cache}
    Cache = cache
    Blocks = {b1, b2, b3}
    Callables = {small, large, fragileSmall, fragileLarge}
    Large = {large, fragileLarge}
    Fragile = {fragileSmall, fragileLarge}
SPECIFICATION Spec
INVARIANTS
    TypeOK
    BoxesOwned
PROPERTIES
    ImplementsFunctionValues
\* Every function may have been broken by an exception.
CHECK_DEADLOCK FALSE
