------------------------------ MODULE ItemLists ------------------------------
(***************************************************************************)
(* The two readers of internal/parsers that walk a list of items of        *)
(* different lengths: parseKeybagEntries (encryption/keybag_reader.go) and *)
(* ListExtendedFields (extended_fields/extended_fields_reader.go).  Each   *)
(* item is a header that holds the length of a payload.                    *)
(*                                                                         *)
(* A list is a record of                                                   *)
(*   kind     "keybag" or "xfields",                                       *)
(*   count    KlNkeys or XfNumExts,                                        *)
(*   used     KlNbytes or XfUsedData,                                      *)
(*   room     bytes of data there are,                                     *)
(*   headers  the stored headers: position -> length of the payload,       *)
(*   at       where the payload of each is stored.                         *)
(* What is no header decodes to any length of AnyLengths.                  *)
(***************************************************************************)
EXTENDS Integers, Sequences, FiniteSets

CONSTANTS
  Lists,       \* the lists walked
  AnyLengths,  \* lengths that arbitrary bytes decode to
  MaxKeyLen    \* types.ApfsVolKeybagEntryMaxSize

\* Sizes of the two headers.
KeybagHeader == 24
XFieldHeader == 4

\* A keybag is written entry by entry, each header in front of its key.
EntryByEntry(l) ==
  /\ IsFiniteSet(DOMAIN l.headers)
  /\ \A p \in DOMAIN l.headers : l.at[p] = p + KeybagHeader
  /\ \A q \in DOMAIN l.headers : q = 0 \/ \E p \in DOMAIN l.headers : q = l.at[p] + l.headers[p]

ASSUME ListAssumption ==
  /\ AnyLengths \subseteq Nat /\ MaxKeyLen \in Nat
  /\ \A l \in Lists : /\ l.kind \in {"keybag", "xfields"}
                      /\ l.count \in Nat /\ l.used \in Nat /\ l.room \in Nat
                      /\ \A p \in DOMAIN l.headers : p \in Nat /\ l.headers[p] \in Nat
                      /\ l.kind = "keybag" => EntryByEntry(l)

VARIABLES
  list,    \* the list walked
  place,   \* the reader's offset
  items,   \* <<[header, from, size, kept]>> read so far
  listed   \* "walking", "ok" or "error"

listVars == <<list, place, items, listed>>

ListInit == list \in Lists /\ place = 0 /\ items = <<>> /\ listed = "walking"

HeaderSize == IF list.kind = "keybag" THEN KeybagHeader ELSE XFieldHeader

\* The entries of a keybag are looked at only if as many bytes are there as it
\* says, extended fields only if there are some; otherwise there is no error.
ListLookedAt ==
  IF list.kind = "keybag" THEN list.room >= list.used ELSE list.count > 0 /\ list.used > 0

Walking == listed = "walking" /\ ListLookedAt /\ Len(items) < list.count

NothingListed ==
  /\ listed = "walking" /\ ~ListLookedAt
  /\ listed' = "ok"
  /\ UNCHANGED <<list, place, items>>

HeaderBeyond ==
  /\ Walking /\ place + HeaderSize > list.room
  /\ listed' = "error"
  /\ UNCHANGED <<list, place, items>>

Lengths == IF place \in DOMAIN list.headers THEN {list.headers[place]} ELSE AnyLengths
Payload == place + HeaderSize
HeaderRead == Walking /\ Payload <= list.room

\* A key longer than the maximum, a payload of a field that is cut off.
ItemRefused ==
  /\ HeaderRead
  /\ \E s \in Lengths : IF list.kind = "keybag" THEN s > MaxKeyLen ELSE Payload + s > list.room
  /\ listed' = "error"
  /\ UNCHANGED <<list, place, items>>

\* Mutant: the next header is looked for behind the last one.
NextPlaceHeader(s) == Payload

NextPlace(s) ==
  IF list.kind = "keybag" THEN Payload + s ELSE ((Payload + s + 7) \div 8) * 8

TakeItem ==
  /\ HeaderRead
  /\ \E s \in Lengths :
       /\ Payload + s <= list.room
       /\ list.kind = "keybag" => s <= MaxKeyLen
       /\ items' = Append(items, [header |-> place, from |-> Payload, size |-> s, kept |-> TRUE])
       /\ place' = NextPlace(s)
  /\ UNCHANGED <<list, listed>>

\* A key that is cut off is left out without an error, and the next entry is
\* looked for where it begins.
TakeWithoutKey ==
  /\ HeaderRead /\ list.kind = "keybag"
  /\ \E s \in Lengths :
       /\ s <= MaxKeyLen /\ Payload + s > list.room
       /\ items' = Append(items, [header |-> place, from |-> Payload, size |-> s, kept |-> FALSE])
       /\ place' = Payload
  /\ UNCHANGED <<list, listed>>

AllListed ==
  /\ listed = "walking" /\ ListLookedAt /\ Len(items) = list.count
  /\ listed' = "ok"
  /\ UNCHANGED <<list, place, items>>

ListNext == NothingListed \/ HeaderBeyond \/ ItemRefused \/ TakeItem \/ TakeWithoutKey \/ AllListed
ListEnded == listed # "walking" /\ UNCHANGED listVars
ListSpec == ListInit /\ [][ListNext \/ ListEnded]_listVars

\* keybagReader.IsValid; the version and the lengths have been checked.
IsValid == Len(items) = list.count /\ \A k \in 1..Len(items) : items[k].kept

-----------------------------------------------------------------------------
(* Properties.                                                             *)

\* The list as it was written: all its headers and payloads are inside.
Whole ==
  /\ Cardinality(DOMAIN list.headers) = list.count
  /\ \A p \in DOMAIN list.headers : list.at[p] + list.headers[p] <= list.room

\* However the lengths are damaged, the payloads kept lie inside the data, one
\* behind the other and behind their headers, and there are no more of them
\* than the list announces (90-134, 33-62).
PayloadsApart ==
  /\ Len(items) <= list.count
  /\ \A k \in 1..Len(items) :
       /\ items[k].kept => items[k].from + items[k].size <= list.room
       /\ k > 1 => items[k].header >= items[k - 1].from
                                        + (IF items[k - 1].kept THEN items[k - 1].size ELSE 0)

\* A keybag that is whole is read back entry by entry, none lost and none made
\* up, and only a keybag all of whose keys were read is valid; one that says it
\* has more bytes than there are yields no entries and no error, but is not
\* valid (45-86, 166-188).
KeybagIsReadBack ==
  list.kind = "keybag" =>
    /\ Whole /\ list.used <= list.room /\ (\A p \in DOMAIN list.headers : list.headers[p] <= MaxKeyLen) =>
         /\ listed # "error"
         /\ \A k \in 1..Len(items) : /\ items[k].header \in DOMAIN list.headers
                                     /\ items[k].from = list.at[items[k].header]
    /\ listed = "ok" /\ IsValid => \A k \in 1..Len(items) : items[k].from + items[k].size <= list.room
    /\ listed = "ok" /\ list.count > 0 /\ list.used > list.room => ~IsValid

\* A list is read back as far as it is there, and damage never makes a payload
\* of the bytes of another or of bytes outside the list.
ItemsAreReadBack == PayloadsApart /\ KeybagIsReadBack

\* "This field contains an array of instances of x_field_t, followed by the
\* extended field data" (types/extended_fields.go:17): the payload listed for a
\* field of a whole list is where that field's data is stored.
FieldsAreStored ==
  list.kind = "xfields" /\ Whole /\ listed = "ok" =>
    \A k \in 1..Len(items) : /\ items[k].header \in DOMAIN list.headers
                             /\ items[k].from = list.at[items[k].header]

=============================================================================
