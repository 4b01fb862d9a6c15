------------------------------ MODULE NorFlash ------------------------------
(***************************************************************************)
(* What a serial NOR flash promises its host: memory that programs can     *)
(* only clear, page by page, and erases set, nothing of it without a write *)
(* enable of its own, one write at a time, and nothing while asleep.       *)
(***************************************************************************)
EXTENDS Integers

CONSTANTS MemBytes, PageBytes, SectorBytes

VARIABLES mem,
          wel,     \* a write is enabled
          busy,    \* a write is in progress
          asleep   \* in deep power down

nor == <<mem, wel, busy, asleep>>

Address == 0 .. MemBytes - 1
Same(a, b, size) == a \div size = b \div size

\* Every bit that is 1 in new is 1 in old.
OnlyClears(new, old) ==
    new \in 0 .. 255 /\ \A i \in 0 .. 7 : (new \div 2^i) % 2 = 1 => (old \div 2^i) % 2 = 1

Init ==
    /\ mem \in [Address -> 0 .. 255]
    /\ wel = FALSE /\ busy = FALSE /\ asleep = FALSE

WriteEnable == ~asleep /\ wel' = TRUE /\ UNCHANGED <<mem, busy, asleep>>

WriteDisable == ~asleep /\ wel' = FALSE /\ UNCHANGED <<mem, busy, asleep>>

StartWrite ==
    /\ wel /\ ~busy /\ ~asleep
    /\ wel' = FALSE /\ busy' = TRUE /\ UNCHANGED asleep

Program ==
    /\ StartWrite
    /\ DOMAIN mem' = Address
    /\ \E page \in Address : \A a \in Address :
          IF Same(a, page, PageBytes) THEN OnlyClears(mem'[a], mem[a]) ELSE mem'[a] = mem[a]

EraseSector ==
    /\ StartWrite
    /\ \E sector \in Address :
          mem' = [a \in Address |-> IF Same(a, sector, SectorBytes) THEN 255 ELSE mem[a]]

EraseChip == StartWrite /\ mem' = [a \in Address |-> 255]

WriteStatus == StartWrite /\ mem' = mem

Finish == busy /\ busy' = FALSE /\ UNCHANGED <<mem, wel, asleep>>

Sleep == ~busy /\ ~asleep /\ asleep' = TRUE /\ UNCHANGED <<mem, wel, busy>>

Wake == asleep /\ asleep' = FALSE /\ UNCHANGED <<mem, wel, busy>>

Next == \/ WriteEnable \/ WriteDisable \/ Program \/ EraseSector \/ EraseChip
        \/ WriteStatus \/ Finish \/ Sleep \/ Wake

Spec == Init /\ [][Next]_nor
=============================================================================
