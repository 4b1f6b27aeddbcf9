--------------------------- MODULE MCInstanceSpec ---------------------------
(* Instances of InstanceSpec for TLC. *)
EXTENDS InstanceSpec, SequencesExt

Plain == [confidential |-> "unset", series |-> "n2d", maintenance |-> "unset",
          accelerators |-> FALSE, rootKey |-> NoKey, disks |-> <<>>,
          labels |-> "old", rest |-> "unset"]

MCRootKeys == {NoKey} \cup {k \in Keys : k.name = "k1"}

\* No key, a sound one, one without a content, and one without the part its type names.
MCDiskKeys ==
    {NoKey} \cup [type : {"Managed"}, managed : BOOLEAN, supplied : {"absent"}, name : {"k2"}]
    \cup [type : {"Supplied"}, managed : {FALSE}, supplied : {"empty"}, name : {"k2"}]

MCDisks == [key : MCDiskKeys, device : {"pd"}]
           \cup [key : {NoKey}, device : {"local-ssd", "unset"}]

\* Each family varies one part of a spec; both vary what may change later.
MCSpecs ==
    {[Plain EXCEPT !.confidential = c, !.series = s, !.maintenance = m, !.accelerators = a,
                   !.labels = l, !.rest = "set"] :
        c \in {"unset", "Disabled", "Enabled", "SEV", "SEVSNP", "TDX"},
        s \in {"n2d", "c3", "n1"}, m \in {"unset", "Migrate", "Terminate"}, a \in BOOLEAN,
        l \in {"old", "new"}}
    \cup
    {[Plain EXCEPT !.rootKey = r, !.disks = ds, !.labels = l] :
        r \in MCRootKeys, ds \in BoundedSeq(MCDisks, 2), l \in {"old", "new"}}

=============================================================================
