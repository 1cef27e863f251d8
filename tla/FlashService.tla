----------------------------- MODULE FlashService -----------------------------
(***************************************************************************)
(* What Erase_FLASH and Flash_If_Write promise to the IAP server, each as  *)
(* one step: the flash before and after a call, and what the call returns. *)
(* A reset may cut a call off.                                             *)
(***************************************************************************)
EXTENDS FlashLayout

CONSTANTS
  WORD,            \* cells in a flash word
  Lens, Writes,    \* what the two functions are called with
  Source,          \* the buffer that is written
  Erased, Garbage

VARIABLES
  call,    \* the last call and its arguments
  busy,    \* it has not returned
  content, \* the flash, as of the last return
  result   \* what the last call returned, "reset" when a reset cut it off

vars == <<call, busy, content, result>>

FLASH_END == SectorStart(2, 0) - 1
Addresses == FLASH_BASE .. FLASH_END
SectorCells(k) == {a \in Addresses : InSector(a, 0, k)}
WordCells(a) == a .. a + WORD - 1

\* The first n sectors from the application's on are erased, and nothing but what
\* lies in torn is changed beside them.
ErasedUpTo(n, torn) ==
  LET erased == UNION {SectorCells(k) : k \in ErasedSectors(n)} IN
  \A a \in Addresses \ torn :
     content'[a] = IF a \in erased THEN Erased ELSE content[a]

\* The first n cells of Source are written from the call's address on, in whole
\* words, and nothing but what lies in torn is changed beside them.  Only the first
\* cell of a word is read back: a word that was not erased, or failed to take the
\* data, may hold anything behind it.
WrittenUpTo(n, torn) ==
  \A a \in Addresses \ torn :
     LET j == a - IAP_APP_ADDRESS - call.at IN
     IF 0 <= j /\ j - (j % WORD) < n
       THEN content'[a] = Source[j] \/ (content'[a] = Garbage /\ j % WORD # 0)
       ELSE content'[a] = content[a]
-----------------------------------------------------------------------------
Erase_FLASH(len) ==
  /\ ~ busy /\ busy' = TRUE
  /\ call' = [op |-> "erase", len |-> len]
  /\ UNCHANGED <<content, result>>

Flash_If_Write(w) ==
  /\ ~ busy /\ busy' = TRUE
  /\ call' = [op |-> "write", at |-> w.at, len |-> w.len]
  /\ UNCHANGED <<content, result>>

Erased_OK == call.op = "erase" /\ ErasedUpTo(NbSectors(call.len), {})

\* The sectors before the failing one are erased, none behind it.
EraseStopped ==
  /\ call.op = "erase"
  /\ \/ ErasedUpTo(NbSectors(call.len), {})
     \/ \E n \in 0 .. NbSectors(call.len) - 1 :
          ErasedUpTo(n, SectorCells(GetSector(IAP_APP_ADDRESS) + n))

Written_OK == call.op = "write" /\ WrittenUpTo(call.len, {})

\* The words before the failing one are written, none behind it.
WriteStopped ==
  /\ call.op = "write"
  /\ \/ WrittenUpTo(call.len, {})
     \/ \E n \in {i \in 0 .. call.len - 1 : i % WORD = 0} :
          WrittenUpTo(n, WordCells(IAP_APP_ADDRESS + call.at + n))

Return ==
  /\ busy /\ busy' = FALSE /\ UNCHANGED call
  /\ \/ (Erased_OK \/ Written_OK) /\ result' = "OK"
     \/ (EraseStopped \/ WriteStopped) /\ result' \in {"ERROR", "reset"}

\* A reset between two calls.
Reset == ~ busy /\ result' = "reset" /\ UNCHANGED <<call, busy, content>>

Init ==
  /\ call = [op |-> "none"] /\ ~ busy
  /\ content = [a \in Addresses |-> Erased] /\ result = "reset"

Next ==
  \/ \E len \in Lens : Erase_FLASH(len)
  \/ \E w \in Writes : Flash_If_Write(w)
  \/ Return \/ Reset

Spec == Init /\ [][Next]_vars
=============================================================================
