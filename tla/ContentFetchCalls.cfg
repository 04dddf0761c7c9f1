\* Two concurrent calls, two channels, one delivering goroutine; two requests,
\* so that a channel is used again after a call gave it back.
CONSTANTS
  f1 = f1  f2 = f2  h1 = h1  c1 = c1  c2 = c2
  x = x  y = y  n1 = n1  n2 = n2
  Fetcher = {f1, f2}
  Handler = {h1}
  Chan = {c1, c2}
  Hash = {x, y}
  Holder = {n1, n2}
  Self = n1
  Rotten = {n2}
  Rot = Rot
  Refusal = Refusal
  Nothing = Nothing
  MaxReq = 2
SYMMETRY Symmetry
SPECIFICATION FetchSpec
INVARIANTS ChannelHasOneOwner BytesVerify CallNeverStuck
PROPERTIES CallAdvances
