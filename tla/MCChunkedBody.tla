--------------------------- MODULE MCChunkedBody ---------------------------
(***************************************************************************)
(* The chunk decoder on every sequence of a few pieces, in words of 256:   *)
(* a size has two hex digits.                                              *)
(***************************************************************************)
EXTENDS ChunkedBody

\* The units of module Http, chunks with more or less in them than they say,
\* an end without its CRLF, a size that is too long, sizes near the end of
\* the words, and pieces of a separator.
MCPieces ==
  {Units[k] : k \in DOMAIN Units}
    \union {<<0, 2, CR, LF, DATA, 1, CR, LF>>, <<2, CR, LF, CR, LF>>,
            <<0, 0, 1, CR, LF>>, <<15, 15, CR, LF>>, <<15, 14, CR, LF>>,
            <<0, CR, LF>>, <<CR>>, <<LF>>, <<1>>}

MaxPieces == 3
MCScripts == BoundedSeq(MCPieces, MaxPieces)

\* For sizes whose sums wrap.
MCHugeScripts ==
  BoundedSeq({<<0, 2, CR, LF, DATA, 1, CR, LF>>, <<15, 14, CR, LF>>}, 2)
=============================================================================
