----------------------------- MODULE StringMap -----------------------------
(***************************************************************************)
(* std::map<std::string, std::string>, the ValueMap of servus::Servus and  *)
(* the KVMap of servus::URI: a function from the keys that it has.         *)
(***************************************************************************)

\* map[key] = value.
Put(map, key, value) ==
  [k \in DOMAIN map \cup {key} |-> IF k = key THEN value ELSE map[k]]

\* The pairs of both maps, the winner's where they have the same key: what a
\* loop leaves that puts the pairs of loser, and then those of winner.
Over(winner, loser) ==
  [k \in DOMAIN winner \cup DOMAIN loser |->
     IF k \in DOMAIN winner THEN winner[k] ELSE loser[k]]
=============================================================================
