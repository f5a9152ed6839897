CONSTANTS
    k1 = k1
    NoChain = NoChain
    RootKeys <- MCRootKeys
    MaxAdds = 2
SPECIFICATION Spec
INVARIANT
    PipelineMatchesMode
