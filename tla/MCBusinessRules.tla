-------------------------- MODULE MCBusinessRules --------------------------
(***************************************************************************)
(* Instances of BusinessRules for TLC.                                     *)
(***************************************************************************)
EXTENDS BusinessRules, TLC

CONSTANTS empty, zero, one, two, nan, word, date

MCProperties == {"ID", "Deleted", "DeletedBy", "Name", "Distance"}

MCMay == [ID |-> {zero, one}, Deleted |-> {Null, date}, DeletedBy |-> {Null, word},
          Name |-> {Null, empty, one, two, nan, word},
          Distance |-> {Null, one, two, nan}]

Standing(e, z, o, t, n, w, d) ==
  empty :> e @@ zero :> z @@ one :> o @@ two :> t @@ nan :> n @@ word :> w @@ date :> d

MCOrder ==
  [String |-> Standing(0, 1, 2, 3, 5, 6, 4),
   Integer |-> Standing(NoParse, 0, 1, 2, NoParse, NoParse, NoParse),
   Double |-> Standing(NoParse, 0, 1, 2, NaN, NoParse, NoParse),
   Decimal |-> Standing(NoParse, 0, 1, 2, NoParse, NoParse, NoParse),
   Date |-> Standing(NoParse, NoParse, NoParse, NoParse, NoParse, NoParse, 0)]

MCLength == Standing(0, 1, 1, 1, 3, 4, 10)

MCMatches == [email |-> {word}]

\* Every kind of rule.
Required(p) == [kind |-> "Required", property |-> p]
Sized(p, min, max) == [kind |-> "Length", property |-> p, min |-> min, max |-> max]
Email(p) == [kind |-> "Regex", property |-> p, pattern |-> "email"]
Ranged(p, min, max, t) ==
  [kind |-> "Range", property |-> p, min |-> min, max |-> max, type |-> t]
Compared(p, other, op, t) ==
  [kind |-> "Compare", property |-> p, other |-> other, op |-> op, type |-> t]
Deletable == [kind |-> "Delete", property |-> "ID"]

MCRules == <<Required("Name"), Deletable, Ranged("Distance", one, two, "Integer"),
             Sized("Name", 1, 3), Email("DeletedBy"),
             Compared("Distance", "Name", "LessThanEqual", "Double")>>

RangeRules == <<Ranged("Name", one, word, "String")>>
=============================================================================
