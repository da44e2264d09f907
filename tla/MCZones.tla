------------------------------ MODULE MCZones ------------------------------
(* Instances of Zones for TLC. *)
EXTENDS Zones, TLC

CONSTANTS g1, a1, c1, c2, s1, s2

Asks(op) == [op |-> op, role |-> "hub_admin", valid |-> TRUE, zone |-> Nothing,
             body |-> [f \in Fields |-> Unset], page |-> 1, limit |-> 1, city |-> Nothing]
On(op, z) == [Asks(op) EXCEPT !.zone = z]
Gives(city, name, boundary) ==
    [f \in Fields |-> CASE f = "city" -> city [] f = "name" -> name [] OTHER -> boundary]

Creations ==
    {[Asks("createRegion") EXCEPT !.body = Gives(c1, 2, s)] : s \in {s1, Unset}}
        \cup {[On("createArea", z) EXCEPT !.body = Gives(Unset, 1, s1)] :
                  z \in {g1} \cup Requests}

\* Of disjoint fields, of common ones, of none, and of one that is refused.
Changes ==
    {[On("updateRegion", g1) EXCEPT !.body = b] :
        b \in {Gives(Unset, 2, Unset), Gives(c2, Unset, s2),
               Gives(Unset, Bad, s2), Gives(Unset, Unset, Unset)}}
        \cup {[On("updateRegion", z) EXCEPT !.body = Gives(Unset, 3, Unset)] : z \in Requests}
        \cup {[On("updateArea", z) EXCEPT !.body = Gives(Unset, 2, Unset)] : z \in {g1, a1}}

OfLists ==
    {[Asks("findRegions") EXCEPT !.page = 2], [Asks("findRegions") EXCEPT !.city = c2],
     [On("findAreas", g1) EXCEPT !.page = 2], [On("findAreas", g1) EXCEPT !.limit = 2]}

EveryRequest ==
    Creations \cup Changes \cup OfLists \cup {On("findArea", a1)}
        \cup {[On("findRegion", g1) EXCEPT !.role = role] : role \in {"nobody", "rider"}}
        \cup {[On("findRegion", g1) EXCEPT !.role = "super_admin", !.valid = FALSE]}

AnyValue == {c1, c2, s1, s2, 1, 2, 3}
OneOfEach == [z \in {g1, a1} |->
    IF z = g1 THEN [region |-> Nothing, fields |-> Gives(c1, 1, s1)]
              ELSE [region |-> g1, fields |-> Gives(Unset, 1, s1)]]
Permutation == Permutations(Requests)
=============================================================================
