SPECIFICATION Spec
CONSTANTS
    Streams <- MCStreams
    Fakes <- MCFakes
    FakeLens = {1}
    BufLen = 12
    MaxFrameLen = 7
    SeqSize = 4
    RTP_HEADER_LEN = 2
    NALU_HEADER_SIZE = 1
    H264_FU_SIZE = 1
    RTP_TS_END = 1
    RTCP_SR_LEN = 2
INVARIANTS Inv InStep WholeFrames NoneMissing
CHECK_DEADLOCK FALSE
