CONSTANTS
    Freqs <- TwoFreqs
    Ranges <- TwoRanges
    Channels <- StereoMono
    SampleBytes <- ThreeBytes
SPECIFICATION ControlSpec
INVARIANTS
    ControlTypeOK
    EnumerationExact
    RequestsServed
    RatesAgree
    FeedbackFollows
    PacketsExact
