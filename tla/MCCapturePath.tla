--------------------------- MODULE MCCapturePath ---------------------------
(* Ranges for CapturePath: both rates, mono to four channels, a format     *)
(* that is not f32, and buffers around, above, below and of unknown size.  *)

EXTENDS CapturePath

Offer(channels, f32, min, max, buffer) ==
  [channels |-> channels, f32 |-> f32, min |-> min, max |-> max, buffer |-> buffer]

MCRanges ==
  { Offer(1, TRUE, 16, 48, <<1, 8>>),   Offer(1, TRUE, 44, 44, <<>>),
    Offer(2, TRUE, 44, 96, <<>>),       Offer(2, TRUE, 48, 48, <<3, 4>>),
    Offer(1, TRUE, 96, 96, <<1, 1>>),   Offer(2, TRUE, 32, 44, <<3, 12>>),
    Offer(2, TRUE, 44, 44, <<1, 6>>),
    Offer(1, FALSE, 48, 48, <<1, 8>>),  Offer(4, TRUE, 48, 48, <<>>) }

=============================================================================
