---------------------------- MODULE HashMapSpec ----------------------------
(***************************************************************************)
(* What a map of this library promises its callers, whatever its layout:   *)
(* a mapping of keys to values, one call at a time, each call taking       *)
(* effect at one instant with the result of a dictionary.  A call that     *)
(* cannot allocate, or whose element cannot be constructed, throws and     *)
(* leaves the mapping as it was.                                           *)
(***************************************************************************)
CONSTANTS Key, Value,
          Absent     \* neither a key nor a value

VARIABLES map,  \* map[k] is the value of key k, Absent if there is none
          ret   \* the result of the call that has just returned

mapVars == <<map, ret>>

NoResult == [op |-> "none", key |-> Absent, res |-> Absent]

Result(op, k, r) == [op |-> op, key |-> k, res |-> r]

Insertions == {"insert", "insert_or_assign"}
Managements == {"reserve", "rehash", "shrink_to_fit", "max_load_factor"}
Has(k) == map[k] # Absent

Init == map = [k \in Key |-> Absent] /\ ret = NoResult

Find(k) == /\ ret' = Result("find", k, map[k])
           /\ UNCHANGED map

Insert(op, k, v) == /\ ~ Has(k)
                    /\ map' = [map EXCEPT ![k] = v]
                    /\ ret' = Result(op, k, "inserted")

Keep(k) == /\ Has(k)
           /\ ret' = Result("insert", k, "exists")
           /\ UNCHANGED map

Assign(k, v) == /\ Has(k)
                /\ map' = [map EXCEPT ![k] = v]
                /\ ret' = Result("insert_or_assign", k, "exists")

Erase(k) == /\ map' = [map EXCEPT ![k] = Absent]
            /\ ret' = Result("erase", k, IF Has(k) THEN "erased" ELSE "none")

(* clear() empties the map, and so does reserve(0) *)
Clear(op) == /\ map' = [k \in Key |-> Absent]
             /\ ret' = Result(op, Absent, "ok")

Resize(op) == /\ ret' = Result(op, Absent, "ok")
              /\ UNCHANGED map

Throw(op, k) == /\ ret' = Result(op, k, "throws")
                /\ UNCHANGED map

Return == ret' = NoResult /\ UNCHANGED map

Operation == 
    \/ \E k \in Key : Find(k) \/ Keep(k) \/ Erase(k)
    \/ \E op \in Insertions, k \in Key : Throw(op, k) \/ \E v \in Value : Insert(op, k, v)
    \/ \E k \in Key, v \in Value : Assign(k, v)
    \/ \E op \in {"reserve", "clear"} : Clear(op)
    \/ \E op \in Managements : Resize(op) \/ Throw(op, Absent)

Next == (ret = NoResult /\ Operation) \/ Return

Spec == Init /\ [][Next]_mapVars
=============================================================================
