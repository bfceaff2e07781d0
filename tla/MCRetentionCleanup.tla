------------------------- MODULE MCRetentionCleanup -------------------------
(* Small instances of RetentionCleanup for TLC.                            *)
EXTENDS RetentionCleanup, TLC

CONSTANTS a1, i1, i2, j1, e1

\* Incident i1 has an audit event; j1 analysed both incidents, which share e1.
MCRoots == {a1, i1, i2, j1, e1}
MCKind == a1 :> "audit_event" @@ i1 :> "incident" @@ i2 :> "incident"
          @@ j1 :> "ingestion_job" @@ e1 :> "canonical_event"
MCRefers == {<<a1, i1>>, <<i1, j1>>, <<i2, j1>>, <<i1, e1>>, <<i2, e1>>, <<j1, e1>>}

MCArchive == [t \in EntityTypes |->
                CASE t = "audit_event" -> <<a1>>
                  [] t = "incident" -> <<i1, i2>>
                  [] t = "ingestion_job" -> <<j1>>
                  [] t = "detection_signal" -> <<>>
                  [] t = "canonical_event" -> <<e1>>]
=============================================================================
