------------------------------- MODULE SdpServer -------------------------------
(***************************************************************************)
(* The SDP server as operators on its state: the record database of        *)
(* src/src/sdp/server.rs with the service records of sdp/record.rs, and    *)
(* the three requests of SdpRequestHandler.                                *)
(*                                                                         *)
(* A record is its list of classes, the ids of its attributes and its      *)
(* change count; of what another attribute holds only the encoded size is  *)
(* kept, one for each id.  An attribute list is the sequence of its        *)
(* octets, each standing for the attribute it belongs to.                  *)
(***************************************************************************)
EXTENDS Positions, SequencesExt

CONSTANTS
  Class,              \* ServiceClassId
  DefaultClass,       \* ServiceDiscoveryServer
  Attribute,          \* attribute ids
  AttributeSize,      \* encoded_size of the attribute's value
  MaxAttributes,      \* MAX_ATTRIBUTES_PER_RECORD
  MaxRecords,         \* MAX_SERVICE_RECORDS
  MaxServiceHandles,  \* MAX_SERVICE_HANDLES
  MaxResponse,        \* MAX_SDP_RESPONSE_SIZE
  FirstHandle,        \* the first handle given out, 0x10000
  LastHandle,         \* the largest handle, 2^32 - 1
  Failed              \* an Err

Mandatory == {"handle", "state", "class"}

ASSUME SdpServerAssumption ==
  /\ DefaultClass \in Class
  /\ Mandatory \cup {"name", "psm", "version"} \subseteq Attribute
  /\ AttributeSize \in [Attribute -> Nat]
  /\ MaxAttributes \in Nat /\ MaxAttributes >= 6
  /\ MaxRecords \in Nat \ {0} /\ MaxServiceHandles \in Nat \ {0} /\ MaxResponse \in Nat
  /\ FirstHandle \in Nat /\ LastHandle \in Nat /\ FirstHandle < LastHandle

-----------------------------------------------------------------------------
(* Service records.                                                        *)

\* listedAt is a history: the state that the last replacement of the class list led to.
ServiceRecord(class) ==
  [handle |-> 0, classes |-> {class}, attributes |-> Mandatory, state |-> 1, listedAt |-> 0]

CanAdd(r, id) == id \in r.attributes \/ Cardinality(r.attributes) < MaxAttributes

AddAttribute(r, id) ==
  IF CanAdd(r, id)
    THEN [r EXCEPT !.attributes = @ \cup {id}, !.state = @ + 1]
    ELSE r

\* add_attribute with another SERVICE_CLASS_ID_LIST; a value that is not a list of
\* classes counts as an empty one.
SetClassList(r, classes) ==
  LET added == AddAttribute(r, "class")
  IN [added EXCEPT !.classes = classes, !.listedAt = added.state]

-----------------------------------------------------------------------------
(* The database: its records in the order of the index map, and the next   *)
(* handle.                                                                 *)

Position(s, h) == {i \in DOMAIN s.records : s.records[i].handle = h}

\* Mutant of Following: the counter stands still.
FollowingSame(h) == h

Following(h) == IF h = LastHandle THEN 0 ELSE h + 1

\* The handle is used up whether or not the record is taken.
AddServiceRecord(s, record) ==
  LET h == s.nextHandle
      r == AddAttribute(AddAttribute([record EXCEPT !.handle = h], "handle"), "state")
      counted == [s EXCEPT !.nextHandle = Following(h)]
  IN CASE Position(s, h) # {} ->
            [counted EXCEPT !.records[CHOOSE i \in Position(s, h) : TRUE] = r]
       [] Position(s, h) = {} /\ Len(s.records) < MaxRecords ->
            [counted EXCEPT !.records = Append(@, r)]
       [] OTHER -> counted

\* FnvIndexMap::remove puts the last record into the gap.
RemoveServiceRecord(s, h) ==
  IF Position(s, h) = {} THEN s
  ELSE [s EXCEPT !.records =
          [i \in 1 .. Len(@) - 1 |-> IF i \in Position(s, h) THEN Last(@) ELSE @[i]]]

DefaultRecord ==
  AddAttribute(AddAttribute(AddAttribute(ServiceRecord(DefaultClass), "name"), "psm"), "version")

NewServer == AddServiceRecord([records |-> <<>>, nextHandle |-> FirstHandle], DefaultRecord)

Matches(r, uuids) == uuids = <<>> \/ r.classes \cap Range(uuids) # {}

FirstOf(s, n) == SubSeq(s, 1, IF n < Len(s) THEN n ELSE Len(s))

SearchServices(s, uuids) ==
  LET matching == Selected(s.records, {i \in DOMAIN s.records : Matches(s.records[i], uuids)})
      found == FirstOf(matching, MaxServiceHandles)
  IN [handles |-> [i \in DOMAIN found |-> found[i].handle], total |-> Len(found)]

\* An id and a length of two octets each, then the value.
AttributeOctets(id) == [i \in 1 .. AttributeSize[id] + 4 |-> id]

\* Attributes the record lacks are passed over; the first that does not fit ends the list.
ServiceAttributes(s, h, ids) ==
  LET r == s.records[CHOOSE i \in Position(s, h) : TRUE]
      held == Selected(ids, {i \in DOMAIN ids : ids[i] \in r.attributes})
      Octets(n) == FlattenSeq([i \in 1 .. n |-> AttributeOctets(held[i])])
      fitting == {n \in 0 .. Len(held) : Len(Octets(n)) <= MaxResponse}
  IN IF Position(s, h) = {} THEN Failed
     ELSE Octets(CHOOSE n \in fitting : n + 1 \notin fitting)

-----------------------------------------------------------------------------
(* SdpRequestHandler.                                                      *)

HandleServiceSearch(s, uuids, maxRecords) ==
  LET result == SearchServices(s, uuids)
  IN [result EXCEPT !.handles = FirstOf(@, maxRecords)]

HandleServiceAttribute(s, h, ids, maxBytes) ==
  LET result == ServiceAttributes(s, h, ids)
  IN IF result = Failed THEN Failed ELSE FirstOf(result, maxBytes)

\* Mutant of WithNext: each list may use all the octets.
WithNextUncounted(lists, attributes, maxBytes) ==
  IF Len(FlattenSeq(lists)) >= maxBytes THEN lists ELSE Append(lists, FirstOf(attributes, maxBytes))

\* The list of one more record, cut at the octets that remain.
WithNext(lists, attributes, maxBytes) ==
  LET taken == Len(FlattenSeq(lists))
  IN IF taken >= maxBytes THEN lists ELSE Append(lists, FirstOf(attributes, maxBytes - taken))

\* One list for each record found, until the octets asked for are used up.
HandleServiceSearchAttribute(s, uuids, ids, maxBytes) ==
  LET found == SearchServices(s, uuids).handles
      results[n \in 0 .. Len(found)] ==
        IF n = 0 THEN <<>>
        ELSE WithNext(results[n - 1], ServiceAttributes(s, found[n], ids), maxBytes)
  IN results[Len(found)]
=============================================================================
