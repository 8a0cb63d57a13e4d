--------------------------------- MODULE Xid ---------------------------------
(***************************************************************************)
(* The identifiers of xid: a game and a zone in one int64, and back.       *)
(* Shifts of the two's complement to the left multiply and to the right    *)
(* divide, rounding down; \div rounds down too.  "or" adds, for the game   *)
(* shifted leaves its low 16 bits 0.                                       *)
(***************************************************************************)
EXTENDS Integers

Slot == 65536                       \* 1 << gameIDSlotBit
GameIDLimit == 32768 * Slot * Slot  \* 1 << gameIDBit

MaxGameID == GameIDLimit - 1
MinGameID == -MaxGameID
MaxUID == GameIDLimit * Slot - 1    \* the greatest int64

Zones == 0..255

\* The games BuildUID takes; it returns an error for any other one.
GameIDs == MinGameID..MaxGameID

BuildUID(gameID, zone) == gameID * Slot + zone * 256

GameOf(uid) == uid \div Slot

ZoneOf(uid) == (uid \div 256) % 256

SplitUID(uid) == <<GameOf(uid), ZoneOf(uid)>>
=============================================================================
