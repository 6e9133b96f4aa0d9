----------------------------- MODULE RadixTree -----------------------------
(***************************************************************************)
(* The radix tree of src/platform/src/util/directionary.c, as far as C     *)
(* defines it.  MountRadixTreeItem computes the place of a second node     *)
(* from MaxCommonValuePrefix, which counts bits of a whole unsigned long   *)
(* and not of a key: remain_bits falls below 0, an unsigned char makes it  *)
(* at least 193, and line 191 shifts an int by it less a unit.  So what a  *)
(* collision in a slot does is undefined, and the model ends there.        *)
(* The zone of the root is computed in an int, too (bit.h:102): from 31    *)
(* bits on, that shift is undefined and a key may be found inside or       *)
(* outside.  (The other shifts below the root are of slot_shift, which is  *)
(* 0 there, and stay 0 in every build.)                                    *)
(* Up to a collision the tree is its root node: a slot and a tag per value *)
(* of the highest unit of a key.  Callers do not use the key -1, the tag   *)
(* of none.                                                                *)
(***************************************************************************)
EXTENDS Integers, FiniteSets

CONSTANTS UnitBits,   \* unit_shift: bits of a unit of a key, at most 8
          UnitNum,    \* unit_num: units of a key
          IntBits,    \* the width of an int, 32
          SlotNum,    \* MAX_SLOTSIZE
          TreeKeys,   \* the keys callers use: some outside the tree's zone
          Items,      \* what is mounted
          NoItem,     \* NULL
          WordMax,    \* the greatest unsigned long: -1, the tag of an empty slot
          WordSize    \* item_counts is unsigned: it wraps at this value

ASSUME RadixTreeAssumption ==
    /\ {UnitBits, UnitNum, IntBits, SlotNum, WordSize, WordMax} \subseteq Nat \ {0}
    /\ 2 ^ UnitBits <= SlotNum
    /\ 2 ^ (UnitBits * (UnitNum - 1)) \in Nat \ {0}  \* as any power of 2: the provers know none
    /\ TreeKeys \subseteq 0 .. WordMax - 1
    /\ 2 ^ (UnitBits * UnitNum) <= WordMax + 1
    /\ NoItem \notin Items

VARIABLES
    root,         \* the root node exists
    slots,        \* slot -> item
    tags,         \* slot -> key of the item, WordMax for none
    item_counts,  \* of the root node
    treeEnd,      \* "collision" or "assert" once the program leaves the model
    found,        \* what the last call of SearchRadixTreeItem returned
    mounted       \* history: key -> the item under it, NoItem for none

treeVars == <<root, slots, tags, item_counts, treeEnd, found, mounted>>

Slots == 0 .. SlotNum - 1

\* IsBelongtoRange(unsigned long, 0, key, bits): the ceiling (1 << bits) - 1 is
\* that of the zone while an int holds 1 << bits, and undefined from there on.
InZone(key) == key < 2 ^ (UnitBits * UnitNum)
CeilingDefined == UnitBits * UnitNum < IntBits - 1
FoundInside(key) == ~CeilingDefined \/ InZone(key)
FoundOutside(key) == ~CeilingDefined \/ ~InZone(key)

\* TreeNodeShift at the root, stored in a flag_bit.
Shift(key) == (key \div 2 ^ (UnitBits * (UnitNum - 1))) % SlotNum

BuildRadixTree ==
    /\ root = FALSE
    /\ slots = [i \in Slots |-> NoItem]
    /\ tags = [i \in Slots |-> WordMax]
    /\ item_counts = 0
    /\ treeEnd = "no"
    /\ found = NoItem
    /\ mounted = [key \in TreeKeys |-> NoItem]
-----------------------------------------------------------------------------
(* Mutant: the tag of the slot is left as it was.                           *)
MountAtNoTag(key, item) ==
    /\ slots' = [slots EXCEPT ![Shift(key)] = item]
    /\ mounted' = [mounted EXCEPT ![key] = item]
    /\ UNCHANGED <<tags, treeEnd, found>>

MountAt(key, item) ==
    /\ slots' = [slots EXCEPT ![Shift(key)] = item]
    /\ tags' = [tags EXCEPT ![Shift(key)] = key]
    /\ mounted' = [mounted EXCEPT ![key] = item]
    /\ UNCHANGED <<treeEnd, found>>

\* The first item makes the root, and is not counted there: MountFirst stores
\* whatever the key, even one outside the zone.
MountFirst(key, item) ==
    /\ ~root
    /\ root' = TRUE
    /\ MountAt(key, item)
    /\ UNCHANGED item_counts

MountNext(key, item) ==
    /\ root
    /\ FoundInside(key)
    /\ item_counts' = (item_counts + 1) % WordSize
    /\ UNCHANGED root
    /\ IF slots[Shift(key)] = NoItem
       THEN MountAt(key, item)
       ELSE treeEnd' = "collision" /\ UNCHANGED <<slots, tags, found, mounted>>

\* Outside the zone of the root the walk goes to its parent, which is NULL.
MountOutside(key) ==
    /\ root
    /\ FoundOutside(key)
    /\ treeEnd' = "assert"
    /\ UNCHANGED <<root, slots, tags, item_counts, found, mounted>>

MountRadixTreeItem(key, item) ==
    MountFirst(key, item) \/ MountNext(key, item) \/ MountOutside(key)

\* The item in the slot, if the tag says it is the key's.
Lookup(key) ==
    IF root /\ tags[Shift(key)] = key THEN slots[Shift(key)] ELSE NoItem

SearchRadixTreeItem(key) ==
    /\ found' = Lookup(key)
    /\ UNCHANGED <<root, slots, tags, item_counts, treeEnd, mounted>>

\* The first tag that is the key is cleared, the slot keeps its item; since it
\* does, CompressRoute never finds the node surplus.
RemoveRadixTreeItem(key) ==
    IF Lookup(key) = NoItem
    THEN UNCHANGED treeVars
    ELSE LET index == CHOOSE i \in Slots :
                          tags[i] = key /\ \A j \in 0 .. i - 1 : tags[j] # key
         IN  /\ tags' = [tags EXCEPT ![index] = WordMax]
             /\ item_counts' = (item_counts + WordSize - 1) % WordSize
             /\ mounted' = [mounted EXCEPT ![key] = NoItem]
             /\ UNCHANGED <<root, slots, treeEnd, found>>

TreeNext ==
    /\ treeEnd = "no"
    /\ \E key \in TreeKeys :
           \/ \E item \in Items : MountRadixTreeItem(key, item)
           \/ SearchRadixTreeItem(key)
           \/ RemoveRadixTreeItem(key)

TreeSpec == BuildRadixTree /\ [][TreeNext]_treeVars
-----------------------------------------------------------------------------
TreeTypeOK ==
    /\ root \in BOOLEAN
    /\ slots \in [Slots -> Items \cup {NoItem}]
    /\ tags \in [Slots -> TreeKeys \cup {WordMax}]
    /\ item_counts \in 0 .. WordSize - 1
    /\ treeEnd \in {"no", "collision", "assert"}
    /\ found \in Items \cup {NoItem}
    /\ mounted \in [TreeKeys -> Items \cup {NoItem}]

\* The tree is the map its callers take it for: a search finds under a key the
\* item mounted there and not removed since, although a removal leaves the item
\* in its slot (directionary.c:279) and the first item is mounted whatever its key.
TreeIsMap == \A key \in TreeKeys : Lookup(key) = mounted[key]

\* The item_counts of the root is the number of items mounted there, as its
\* declaration says (directionary.h:14).
ItemsCounted ==
    root /\ treeEnd = "no" =>
        item_counts = Cardinality({key \in TreeKeys : mounted[key] # NoItem}) % WordSize
=============================================================================
