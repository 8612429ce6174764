------------------------------- MODULE MCTopic -------------------------------
(* Every raw topic over a few pieces, up to a bound. *)
EXTENDS TopicValidation

MCPiece == {"", "+", "#", "$SYS", "$G", "a", "b+", "abc", "long"}
MCEmbedding == {"b+"}
MCByteLen ==
    [p \in MCPiece |->
        CASE p = "" -> 0
          [] p \in {"+", "#", "a"} -> 1
          [] p \in {"b+", "$G"} -> 2
          [] p = "abc" -> 3
          [] p = "$SYS" -> 4
          [] p = "long" -> 6]

\* One layer more than the limit, so that the limit is crossed.
MCRawTopic == BoundedSeq(Piece, MAX_LAYERS + 1) \ {<<>>}

==============================================================================
