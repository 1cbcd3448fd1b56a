SPECIFICATION Spec
CONSTANTS
  Sources <- MCSources
  Datagrams <- MCDatagrams
  MaxDigits <- MCMaxDigits
INVARIANTS RoundTrip AcceptsExactlyDecodable OneCanonicalEncoding LoopInv
