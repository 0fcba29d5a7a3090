-------------------------- MODULE ErrorFormatters --------------------------
(***************************************************************************)
(* The formatters of n_errors.c: an array of facilities and the functions  *)
(* that word their errors, searched from the front, kept dense by moving   *)
(* the last entry into a gap.                                              *)
(***************************************************************************)
EXTENDS Integers, Sequences

CONSTANTS Facilities,  \* two bytes each
          Nexus,       \* the facility 'N' 'X' (not one of Facilities)
          Formatters,
          Null,
          Capacity     \* NEXUS_ERROR_MESSAGE_FORMATTER_CAPACITY

VARIABLES
  entries,    \* n_error_facility_formatters up to its count
  registered, \* the formatter each facility asked for last (a history variable)
  error       \* what the last call returned

vars == <<entries, registered, error>>

Init ==
  /\ entries = << >>
  /\ registered = [f \in Facilities |-> Null]
  /\ error = "NONE"

-----------------------------------------------------------------------------
(* n_internal_error_facility_formatter_find                                *)
Find(f) == {i \in DOMAIN entries : entries[i].facility = f /\ \A j \in 1 .. i - 1 : entries[j].facility # f}

(* n_internal_error_facility_formatter_lookup                              *)
Lookup(f) == IF Find(f) = {} THEN Null ELSE entries[CHOOSE i \in Find(f) : TRUE].formatter

Replace(f, formatter) ==
  /\ entries' = [i \in DOMAIN entries |->
                   IF i \in Find(f) THEN [facility |-> f, formatter |-> formatter] ELSE entries[i]]
  /\ registered' = [registered EXCEPT ![f] = formatter]
  /\ error' = "NONE"

Extend(f, formatter) ==
  /\ Find(f) = {} /\ Len(entries) < Capacity
  /\ entries' = Append(entries, [facility |-> f, formatter |-> formatter])
  /\ registered' = [registered EXCEPT ![f] = formatter]
  /\ error' = "NONE"

Refuse(f, formatter) ==
  /\ error' = IF formatter = Null \/ f = Nexus THEN "INVALID_ARGUMENT" ELSE "CAPACITY"
  /\ UNCHANGED <<entries, registered>>

(* nexus_errors_message_formatter_register                                 *)
Register(f, formatter) ==
  \/ (formatter = Null \/ f = Nexus) /\ Refuse(f, formatter)
  \/ formatter # Null /\ f # Nexus /\ Find(f) # {} /\ Replace(f, formatter)
  \/ formatter # Null /\ f # Nexus /\ Extend(f, formatter)
  \/ formatter # Null /\ f # Nexus /\ Find(f) = {} /\ Len(entries) >= Capacity /\ Refuse(f, formatter)

(* The last entry moves into the gap; Mutant: it is dropped instead.       *)
WithoutLast(i) == SubSeq(entries, 1, Len(entries) - 1)
Without(i) == SubSeq([entries EXCEPT ![i] = entries[Len(entries)]], 1, Len(entries) - 1)

(* nexus_errors_message_formatter_unregister                               *)
Unregister(f) ==
  /\ entries' = IF Find(f) = {} THEN entries ELSE Without(CHOOSE i \in Find(f) : TRUE)
  /\ registered' = IF f \in Facilities THEN [registered EXCEPT ![f] = Null] ELSE registered
  /\ UNCHANGED error

Next ==
  \E f \in Facilities \union {Nexus} :
    \/ Unregister(f)
    \/ \E formatter \in Formatters \union {Null} : Register(f, formatter)

Spec == Init /\ [][Next]_vars

-----------------------------------------------------------------------------
(* Whose words nexus_errors_message_write uses for an error of f: its own, *)
(* a formatter's, or none (a formatter may also have no words).            *)
Words(f) == IF f = Nexus THEN Nexus ELSE Lookup(f)

(* An error is worded by the formatter its facility registered last and    *)
(* has not taken back, whatever came and went in between; no facility has  *)
(* two entries, of which the second would come back when the first goes.   *)
Worded ==
  /\ \A f \in Facilities : Words(f) = registered[f]
  /\ Words(Nexus) = Nexus
  /\ \A i, j \in DOMAIN entries : entries[i].facility = entries[j].facility => i = j
  /\ Len(entries) <= Capacity
=============================================================================
