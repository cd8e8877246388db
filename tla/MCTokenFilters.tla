--------------------------- MODULE MCTokenFilters ---------------------------
(* TokenFilters for TLC: two keys that begin alike; all lists of up to two   *)
(* filters of the sorts that differ, those of three whose first or last      *)
(* could tell that only token accounts pass, and one that is too long.       *)
EXTENDS TokenFiltersProofs

CONSTANTS k1, k2

MCKeys      == {k1, k2}
MCBeginning == [k \in MCKeys |-> "same"]

MCFilters ==
    [kind : {"DataSize"}, size : Sizes] \cup {State}
    \cup {IsKey(k, name) : k \in MCKeys, name \in {"owner", "mint"}}
    \cup [kind : {"Memcmp"}, field : {"owner"}, key : MCKeys, whole : {FALSE}, form : {"raw"}]
    \cup [kind : {"Memcmp"}, field : {"type"}, type : {"account", "mint"}, form : {"raw"}]
    \cup [kind : {"Memcmp"}, field : {"owner"}, key : {k2}, whole : {TRUE},
          form : {"encoded", "bad"}]

Telling == {f \in MCFilters : \/ f.kind = "TokenAccountState"
                              \/ f.kind = "DataSize" /\ f.size = TokenSize
                              \/ f.kind = "Memcmp" /\ f.field = "type" /\ f.type = "account"}

MCLists == UNION {[1 .. n -> MCFilters] : n \in 0 .. 2}
           \cup {<<t, f, g>> : t \in Telling, f \in MCFilters, g \in MCFilters}
           \cup {<<f, g, t>> : t \in Telling, f \in MCFilters, g \in MCFilters}
           \cup {[i \in 1 .. MaxFilters + 1 |-> State]}
=============================================================================
