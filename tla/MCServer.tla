------------------------------ MODULE MCServer ------------------------------
(* Two connections, one of which opens two streams. *)
EXTENDS Server, TLC

CONSTANTS c1, c2, s1, s2, s3

MCConn == {c1, c2}
MCStream == {s1, s2, s3}
MCConnOf == (s1 :> c1) @@ (s2 :> c1) @@ (s3 :> c2)

\* Every way in which start-up can go, with metrics off and on.
MCConfigs ==
    {c \in ServerConfig : c.metrics_level \in {MetricLevel.Disabled, MetricLevel.Critical}}

=============================================================================
