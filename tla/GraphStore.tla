---------------------------- MODULE GraphStore -----------------------------
(***************************************************************************)
(* What the storage engine promises, without memgraphs, segments, versions *)
(* or a manifest: a multi-version set of edges, part of which is saved.    *)
(* Writes arrive in any timestamp order, some set of written records is    *)
(* saved at a time, and a restart forgets what is not saved.  Merging      *)
(* segments is invisible at this level.                                    *)
(***************************************************************************)
EXTENDS EdgeRecords

VARIABLES
  written,  \* the records that readers may see
  saved     \* for every edge, the newest record that has been saved

Newest(records) == merge_latest_records(records, MaxTs, TRUE)

Init == written = {} /\ saved = {}

\* A new version of an edge, with a timestamp nobody has used.
Write ==
  /\ \E r \in EdgeRecord :
       /\ \A w \in written : w.ts # r.ts
       /\ written' = written \cup {r}
  /\ UNCHANGED saved

\* Some written records become durable.
Save ==
  /\ \E batch \in SUBSET written :
       batch # {} /\ saved' = Newest(saved \cup batch)
  /\ UNCHANGED written

\* After a restart the store consists of saved records; superseded ones may
\* or may not be among them.
Restart ==
  /\ \E rest \in SUBSET written : Newest(rest) = saved /\ written' = rest
  /\ UNCHANGED saved

Next == Write \/ Save \/ Restart

Spec == Init /\ [][Next]_<<written, saved>>

=============================================================================
