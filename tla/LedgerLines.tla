----------------------------- MODULE LedgerLines -----------------------------
(***************************************************************************)
(* The bytes of a hash-chained JSONL ledger and what the code reads from   *)
(* them (cra_evidence/ledger.py: line_content, is_blank_line, _tail_state, *)
(* Ledger.entries, Ledger.verify).                                         *)
(*                                                                         *)
(* A file is a sequence of cells.  The JSON text of an entry is cut in two *)
(* pieces, Open(e) and Close(e): one cut is enough to tell a whole line    *)
(* from part of one.  NL is the terminator, NUL what ftruncate adds when   *)
(* it makes a file longer.  A line is what lies between terminators; it    *)
(* parses iff it is Open(e) followed by Close(e), and an empty one is      *)
(* blank.                                                                  *)
(***************************************************************************)
EXTENDS Entries, FiniteSets

Open(e)  == [part |-> "open", e |-> e]
Close(e) == [part |-> "close", e |-> e]
NL  == [part |-> "newline"]
NUL == [part |-> "nul"]

Cell == [part : {"open", "close"}, e : Entry] \cup {NL, NUL}

Line(e) == <<Open(e), Close(e), NL>>

-----------------------------------------------------------------------------
(* Lines.                                                                  *)

\* where lines start
LineStarts(f) == {i \in 1..Len(f) : i = 1 \/ f[i-1] = NL}

\* the line that starts at cell i is the whole text of one entry
WholeAt(f, i) ==
  /\ i < Len(f)
  /\ f[i].part = "open"
  /\ f[i+1] = Close(f[i].e)
  /\ i + 1 = Len(f) \/ f[i+2] = NL

\* where the lines that parse start
Starts(f) == {i \in LineStarts(f) : WholeAt(f, i)}

\* some line is neither blank nor a whole entry
Unparsable(f) == \E i \in LineStarts(f) \ Starts(f) : f[i] # NL

Unterminated(f) == Len(f) > 0 /\ f[Len(f)] # NL

-----------------------------------------------------------------------------
(* What _tail_state returns for a file whose every line parses.            *)

Greatest(S) == CHOOSE i \in S : \A j \in S : j <= i
Least(S)    == CHOOSE i \in S : \A j \in S : i <= j

Count(f) == Cardinality(Starts(f))

LastHash(f) == IF Starts(f) = {} THEN GENESIS
                                 ELSE SelfHash(f[Greatest(Starts(f))].e)

FirstHash(f) == IF Starts(f) = {} THEN GENESIS
                                  ELSE SelfHash(f[Least(Starts(f))].e)

-----------------------------------------------------------------------------
(* Ledger.verify.                                                          *)

Before(f, i) == {j \in Starts(f) : j < i}

\* every entry carries its place in the file and the hash of the one before
LinksHold(f) ==
  \A i \in Starts(f) :
    /\ f[i].e.idx = Cardinality(Before(f, i))
    /\ f[i].e.prev = IF Before(f, i) = {} THEN GENESIS
                     ELSE SelfHash(f[Greatest(Before(f, i))].e)

\* chain_ok: no line refused, every link holds, not empty
ChainOK(f) == ~Unparsable(f) /\ LinksHold(f) /\ Starts(f) # {}

\* the entries in the order of their lines
LogOf(f) ==
  [k \in 1..Count(f) |->
     f[CHOOSE i \in Starts(f) : Cardinality(Before(f, i)) = k - 1].e]

Holds(f, e) == \E i \in Starts(f) : f[i].e = e
=============================================================================
