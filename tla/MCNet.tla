-------------------------------- MODULE MCNet --------------------------------
(* Texts for the runs of NetConfig with parts of one bit.                  *)
EXTENDS NetConfig

\* Two addresses of one network, one of another, a short text, and one with a
\* part that is too large.
MCAddrTexts ==
  {<<0, 1, 0, 1>>, <<0, 1, 1, 0>>, <<1, 0, 1>>, <<0, 2, 0, 0>>}

\* All words, parts that are too large, and short texts.
MCMaskTexts ==
  [1 .. 4 -> 0 .. 1]
    \cup {<<2, 0, 0, 0>>, <<1, 1, 1, 2>>, <<1, 1>>, <<15>>, <<16>>}

MCFirstAddress == Address(<<0, 1, 0, 1>>)
==============================================================================
