------------------------------- MODULE MCSeal -------------------------------
(* Seal with blocks of 2 bytes, a uint8_t of 4 values and a UINT32_MAX that *)
(* the two longest texts exceed.                                            *)
EXTENDS Seal

MCTextLens == {0, 1, 2, 5, 8}
MCMacLens == {0, 1, 2, 3, 5}

Layout(t, n) == [table |-> t, nonce |-> n]

MCBuilds ==
  {[enc |-> l, dec |-> l] : l \in {Layout("dead", "dead"), Layout("l_asterisk", "l"),
                                   Layout("l_dollar", "l_asterisk")}}
  \cup {[enc |-> Layout("dead", "dead"), dec |-> Layout("dead", "l_asterisk")]}
=============================================================================
