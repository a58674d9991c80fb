--------------------------- MODULE PlacementProofs ---------------------------
(***************************************************************************)
(* Theorems about Placements for any applications, requests, sweeps and    *)
(* bounds.                                                                 *)
(*                                                                         *)
(* What a commit writes was decided when its rows were loaded.  The        *)
(* argument is that the facts a request relies on do not go away: whatever *)
(* overlaps, rows are only added, a window that is over stays over, an     *)
(* event stays emitted, a commission never becomes none again.  No request *)
(* needs a fact that can go away, a status least of all.                   *)
(***************************************************************************)
EXTENDS Placements, SequenceTheorems, FiniteSetTheorems, TLAPS

Stored == {"active", "cleared", "breached", "replaced"}

PlacementRow == [app : App, status : Stored, for : Nat]

InvoiceRow == [placement : Nat, creditOf : Nat]

Ids == 1 .. MaxPlacements

Counters == [Outcomes -> Nat]

Tables ==
  /\ joined \subseteq App
  /\ placements \in Seq(PlacementRow)
  /\ Len(placements) <= MaxPlacements
  /\ \A p \in Placed : placements[p].for \in {None} \cup Placed
  /\ over \subseteq Placed
  /\ invoices \in Seq(InvoiceRow)
  /\ \A i \in DOMAIN invoices : /\ invoices[i].placement \in Placed
                                /\ invoices[i].creditOf \in {None} \cup DOMAIN invoices
  /\ commission \in [Ids -> {NoCommission, "accrued", "paid", "void"}]
  /\ completed \in [Ids -> Counters]
  /\ \A p \in Ids \ Placed : commission[p] = NoCommission /\ completed[p]["cleared"] = 0
  /\ req = [w \in Worker \cup Sweeper |-> req[w]]

Billed(p) == \E i \in DOMAIN invoices : invoices[i].placement = p /\ invoices[i].creditOf = None

Free == \A p \in Placed :
  /\ placements[p].for # None => ~Billed(p) /\ commission[p] = NoCommission
  /\ commission[p] # NoCommission => Billed(p)

\* What a request has loaded that its commit relies on.
Reliable(w) ==
  LET r == req[w] IN
  /\ r.op = "place" => r.app \in App
  /\ r.op = "breach" => r.placement \in Placed
  /\ r.op = "replace" => /\ r.app \in App
                         /\ r.placement \in Placed
                         /\ completed[r.placement]["breached"] > 0
  /\ r.op = "sweep" => r.due \subseteq over
  /\ r.op = "credit" => r.invoice \in DOMAIN invoices
  /\ r.op = "void accrued" =>
       /\ r.invoice \in DOMAIN invoices
       /\ r.accrued \in BOOLEAN
       /\ r.accrued => commission[invoices[r.invoice].placement] # NoCommission
  /\ r.op = "accrue" => /\ r.placement \in Placed
                        /\ placements[r.placement].for = None
                        /\ Billed(r.placement)
  /\ r.op = "settle" => /\ r.placement \in Placed
                        /\ commission[r.placement] # NoCommission
                        /\ r.to \in {"paid", "void"}

AllReliable == \A w \in Worker \cup Sweeper : Reliable(w)

IInv == Tables /\ Free /\ OutcomeReported /\ ClearedAfterWindow /\ AllReliable

\* What every step does to the tables.
Grows ==
  /\ Placed \subseteq DOMAIN placements'
  /\ \A p \in Placed : placements'[p].for = placements[p].for
  /\ over \subseteq over'
  /\ DOMAIN invoices \subseteq DOMAIN invoices'
  /\ \A i \in DOMAIN invoices : invoices'[i] = invoices[i]
  /\ \A p \in Placed : /\ commission[p] # NoCommission => commission'[p] # NoCommission
                       /\ completed[p]["breached"] > 0 => completed'[p]["breached"] > 0

-----------------------------------------------------------------------------

\* A sequence whose elements are all in a smaller set is a sequence over it.
LEMMA Narrowed ==
  ASSUME NEW S, NEW T, NEW s \in Seq(S), \A i \in DOMAIN s : s[i] \in T
  PROVE  s \in Seq(T)
  <1>1. Len(s) \in Nat /\ s \in [1 .. Len(s) -> S] /\ DOMAIN s = 1 .. Len(s)
    BY LenProperties
  <1>2. s \in [1 .. Len(s) -> T]
    BY <1>1
  <1> QED
    BY <1>1, <1>2, SeqDef

\* The rows of Placed and the invoices have numbers.
LEMMA Numbers ==
  ASSUME Tables
  PROVE  /\ Placed = 1 .. Len(placements)
         /\ Len(placements) \in Nat
         /\ Placed \subseteq Ids
         /\ DOMAIN invoices = 1 .. Len(invoices)
         /\ Len(invoices) \in Nat
         /\ \A p \in Placed : placements[p] \in PlacementRow
         /\ \A i \in DOMAIN invoices : invoices[i] \in InvoiceRow
  <1>1. placements \in Seq(PlacementRow) /\ invoices \in Seq(InvoiceRow)
    BY DEF Tables
  <1>2. /\ Len(placements) \in Nat /\ DOMAIN placements = 1 .. Len(placements)
        /\ Len(invoices) \in Nat /\ DOMAIN invoices = 1 .. Len(invoices)
    BY <1>1, LenProperties
  <1>3. /\ \A p \in 1 .. Len(placements) : placements[p] \in PlacementRow
        /\ \A i \in 1 .. Len(invoices) : invoices[i] \in InvoiceRow
    BY <1>1, ElementOfSeq
  <1> QED
    BY <1>2, <1>3, PlacementAssumption DEF Tables, Placed, Ids

\* The fee invoices of a placement are not none exactly when it was billed.
LEMMA BilledIsInvoiced ==
  ASSUME NEW p
  PROVE  Billed(p) <=> FeeInvoices(p) # {}
  BY DEF Billed, FeeInvoices

\* What a request relies on survives every step but its own.
LEMMA StaysReliable ==
  ASSUME IInv, Grows, NEW w \in Worker \cup Sweeper, req'[w] = req[w]
  PROVE  Reliable(w)'
  <1> PICK r : r = req[w]
    OBVIOUS
  <1>0. Reliable(w) /\ r = req[w] /\ r = req'[w]
    BY DEF IInv, AllReliable
  <1>1. ASSUME NEW p \in Placed, Billed(p)
        PROVE  Billed(p)'
    BY <1>1 DEF Billed, Grows
  <1>2. r.op = "place" => r.app \in App
    BY <1>0 DEF Reliable
  <1>3. r.op = "breach" => r.placement \in Placed'
    BY <1>0 DEF Reliable, Grows, Placed
  <1>4. r.op = "replace" => /\ r.app \in App
                            /\ r.placement \in Placed'
                            /\ completed'[r.placement]["breached"] > 0
    BY <1>0 DEF Reliable, Grows, Placed
  <1>5. r.op = "sweep" => r.due \subseteq over'
    BY <1>0 DEF Reliable, Grows
  <1>6. r.op = "credit" => r.invoice \in DOMAIN invoices'
    BY <1>0 DEF Reliable, Grows
  <1>7. r.op = "void accrued" =>
          /\ r.invoice \in DOMAIN invoices'
          /\ r.accrued \in BOOLEAN
          /\ r.accrued => commission'[invoices'[r.invoice].placement] # NoCommission
    <2> SUFFICES ASSUME r.op = "void accrued"
                 PROVE  /\ r.invoice \in DOMAIN invoices'
                        /\ r.accrued \in BOOLEAN
                        /\ r.accrued => commission'[invoices'[r.invoice].placement] # NoCommission
      OBVIOUS
    <2>1. /\ r.invoice \in DOMAIN invoices
          /\ r.accrued \in BOOLEAN
          /\ r.accrued => commission[invoices[r.invoice].placement] # NoCommission
      BY <1>0 DEF Reliable
    <2>2. invoices'[r.invoice] = invoices[r.invoice] /\ invoices[r.invoice].placement \in Placed
      BY <2>1 DEF Grows, IInv, Tables
    <2> QED
      BY <2>1, <2>2 DEF Grows
  <1>8. r.op = "accrue" => /\ r.placement \in Placed'
                           /\ placements'[r.placement].for = None
                           /\ Billed(r.placement)'
    BY <1>0, <1>1 DEF Reliable, Grows, Placed
  <1>9. r.op = "settle" => /\ r.placement \in Placed'
                           /\ commission'[r.placement] # NoCommission
                           /\ r.to \in {"paid", "void"}
    BY <1>0 DEF Reliable, Grows, Placed
  <1> QED
    BY <1>0, <1>2, <1>3, <1>4, <1>5, <1>6, <1>7, <1>8, <1>9 DEF Reliable, Placed

\* A step that grows the tables and ends or keeps the request of w leaves all
\* requests reliable.
LEMMA Finished ==
  ASSUME IInv, Grows, NEW w \in Worker \cup Sweeper, Finish(w)
  PROVE  AllReliable' /\ (req = [v \in Worker \cup Sweeper |-> req[v]])'
  <1>1. req' = [req EXCEPT ![w] = Idle] /\ req = [v \in Worker \cup Sweeper |-> req[v]]
    BY DEF Finish, IInv, Tables
  <1>2. ASSUME NEW v \in Worker \cup Sweeper PROVE Reliable(v)'
    <2>1. CASE v = w
      BY <1>1, <2>1 DEF Reliable, Idle
    <2>2. CASE v # w
      BY <1>1, <2>2, StaysReliable
    <2> QED
      BY <2>1, <2>2
  <1> QED
    BY <1>1, <1>2 DEF AllReliable

\* A request that only loads leaves the tables as they are.
LEMMA Loaded ==
  ASSUME IInv, UNCHANGED rows, NEW w \in Worker \cup Sweeper, NEW r,
         req' = [req EXCEPT ![w] = r], Reliable(w)'
  PROVE  IInv'
  <1>1. req = [v \in Worker \cup Sweeper |-> req[v]]
    BY DEF IInv, Tables
  <1>2. Grows
    BY DEF Grows, rows, Placed
  <1>3. ASSUME NEW v \in Worker \cup Sweeper PROVE Reliable(v)'
    <2>1. CASE v = w
      BY <2>1
    <2>2. CASE v # w
      BY <1>1, <1>2, <2>2, StaysReliable
    <2> QED
      BY <2>1, <2>2
  <1>4. Tables'
    BY <1>1 DEF IInv, Tables, rows, Placed
  <1>5. Free' /\ OutcomeReported' /\ ClearedAfterWindow'
    BY DEF IInv, Free, Billed, OutcomeReported, ClearedAfterWindow, rows, Placed
  <1> QED
    BY <1>3, <1>4, <1>5 DEF IInv, AllReliable

-----------------------------------------------------------------------------
(* One lemma for every step that writes.                                   *)

\* A row added to placements of which some may have a new status.
LEMMA Added ==
  ASSUME Tables, NEW s \in Seq(PlacementRow), Len(s) = Len(placements), NEW r \in PlacementRow,
         placements' = Append(s, r), Len(placements) < MaxPlacements
  PROVE  LET n == Len(placements) + 1 IN
         /\ placements' \in Seq(PlacementRow)
         /\ Len(placements') = n
         /\ Len(placements') <= MaxPlacements
         /\ n \in Ids \ Placed
         /\ n # None
         /\ DOMAIN placements' = Placed \cup {n}
         /\ placements'[n] = r
         /\ \A p \in Placed : placements'[p] = s[p]
  <1>1. /\ Append(s, r) \in Seq(PlacementRow)
        /\ Len(Append(s, r)) = Len(s) + 1
        /\ \A i \in 1 .. Len(s) : Append(s, r)[i] = s[i]
        /\ Append(s, r)[Len(s) + 1] = r
    BY AppendProperties
  <1>2. DOMAIN Append(s, r) = 1 .. Len(s) + 1
    BY <1>1, LenProperties
  <1>3. Placed = 1 .. Len(placements) /\ Len(placements) \in Nat
    BY Numbers
  <1> QED
    BY <1>1, <1>2, <1>3, PlacementAssumption DEF Ids, None

\* An invoice added.
LEMMA Invoiced ==
  ASSUME Tables, NEW r \in InvoiceRow, invoices' = Append(invoices, r)
  PROVE  LET n == Len(invoices) + 1 IN
         /\ invoices' \in Seq(InvoiceRow)
         /\ DOMAIN invoices' = DOMAIN invoices \cup {n}
         /\ n \notin DOMAIN invoices
         /\ invoices'[n] = r
         /\ \A i \in DOMAIN invoices : invoices'[i] = invoices[i]
  <1>1. /\ Append(invoices, r) \in Seq(InvoiceRow)
        /\ Len(Append(invoices, r)) = Len(invoices) + 1
        /\ \A i \in 1 .. Len(invoices) : Append(invoices, r)[i] = invoices[i]
        /\ Append(invoices, r)[Len(invoices) + 1] = r
    BY AppendProperties DEF Tables
  <1>2. DOMAIN Append(invoices, r) = 1 .. Len(invoices) + 1
    BY <1>1, LenProperties
  <1>3. DOMAIN invoices = 1 .. Len(invoices) /\ Len(invoices) \in Nat
    BY Numbers
  <1> QED
    BY <1>1, <1>2, <1>3

LEMMA PlacementStep ==
  ASSUME IInv, NEW w \in Worker, CommitPlacement(w)
  PROVE  IInv'
  <1> DEFINE n == Len(placements) + 1
  <1>0. Tables /\ Free /\ OutcomeReported /\ ClearedAfterWindow /\ Reliable(w)
    BY DEF IInv, AllReliable
  <1>1. /\ req[w].op = "place" /\ req[w].app \in App
        /\ placements' = Append(placements, NewPlacement(req[w].app, None))
        /\ Len(placements) < MaxPlacements
        /\ invoices' = Append(invoices, FeeInvoice(n))
        /\ UNCHANGED <<joined, over, commission, completed>>
        /\ Finish(w)
    BY <1>0 DEF CommitPlacement, Reliable
  <1>2. /\ Placed = 1 .. Len(placements) /\ Len(placements) \in Nat /\ Placed \subseteq Ids
        /\ \A p \in Placed : placements[p] \in PlacementRow
    BY <1>0, Numbers
  <1>3. NewPlacement(req[w].app, None) \in PlacementRow /\ FeeInvoice(n) \in InvoiceRow
    BY <1>1, <1>2 DEF NewPlacement, FeeInvoice, PlacementRow, InvoiceRow, Stored, None
  <1>4. /\ placements' \in Seq(PlacementRow)
        /\ Len(placements') <= MaxPlacements
        /\ n \in Ids \ Placed
        /\ DOMAIN placements' = Placed \cup {n}
        /\ placements'[n] = NewPlacement(req[w].app, None)
        /\ \A p \in Placed : placements'[p] = placements[p]
    BY <1>0, <1>1, <1>3, Added DEF Tables
  <1>5. \E m : /\ invoices' \in Seq(InvoiceRow)
               /\ DOMAIN invoices' = DOMAIN invoices \cup {m}
               /\ m \notin DOMAIN invoices
               /\ invoices'[m] = FeeInvoice(n)
               /\ \A i \in DOMAIN invoices : invoices'[i] = invoices[i]
    BY <1>0, <1>1, <1>3, Invoiced
  <1> HIDE DEF n
  <1>6. Grows
    BY <1>1, <1>4, <1>5 DEF Grows
  <1>7. AllReliable' /\ (req = [v \in Worker \cup Sweeper |-> req[v]])'
    BY <1>1, <1>6, Finished
  <1>8. Tables'
    <2>1. \A p \in DOMAIN placements' : placements'[p].for \in {None} \cup DOMAIN placements'
      BY <1>0, <1>4 DEF Tables, NewPlacement
    <2>2. \A i \in DOMAIN invoices' : /\ invoices'[i].placement \in DOMAIN placements'
                                      /\ invoices'[i].creditOf \in {None} \cup DOMAIN invoices'
      BY <1>0, <1>4, <1>5 DEF Tables, FeeInvoice
    <2> QED
      BY <1>0, <1>1, <1>4, <1>5, <1>7, <2>1, <2>2 DEF Tables, Placed
  <1>9. Free'
    <2>1. FeeInvoice(n).placement = n /\ FeeInvoice(n).creditOf = None
      BY DEF FeeInvoice
    <2>2. PICK m : /\ DOMAIN invoices' = DOMAIN invoices \cup {m}
                   /\ invoices'[m] = FeeInvoice(n)
                   /\ \A i \in DOMAIN invoices : invoices'[i] = invoices[i]
      BY <1>5
    <2>3. \A p \in Placed : (\E i \in DOMAIN invoices' : invoices'[i].placement = p /\ invoices'[i].creditOf = None)
                            <=> Billed(p)
      BY <1>4, <2>1, <2>2 DEF Billed
    <2>4. \E i \in DOMAIN invoices' : invoices'[i].placement = n /\ invoices'[i].creditOf = None
      BY <2>1, <2>2
    <2>5. placements'[n].for = None
      BY <1>4 DEF NewPlacement
    <2> QED
      BY <1>0, <1>1, <1>4, <2>3, <2>4, <2>5 DEF Free, Billed, Placed
  <1>10. OutcomeReported' /\ ClearedAfterWindow'
    BY <1>0, <1>1, <1>4 DEF OutcomeReported, ClearedAfterWindow, NewPlacement, Tables, Placed
  <1> QED
    BY <1>7, <1>8, <1>9, <1>10 DEF IInv

LEMMA ReplacementStep ==
  ASSUME IInv, NEW w \in Worker, CommitReplacement(w)
  PROVE  IInv'
  <1> PICK old : old = req[w].placement
    OBVIOUS
  <1> DEFINE n == Len(placements) + 1
             new == [placements[old] EXCEPT !.status = "replaced"]
             s == [placements EXCEPT ![old] = new]
  <1>0. Tables /\ Free /\ OutcomeReported /\ ClearedAfterWindow /\ Reliable(w)
    BY DEF IInv, AllReliable
  <1>1. /\ req[w].op = "replace" /\ req[w].app \in App /\ old \in Placed
        /\ completed[old]["breached"] > 0
        /\ placements' = Append(s, NewPlacement(req[w].app, old))
        /\ Len(placements) < MaxPlacements
        /\ UNCHANGED <<joined, over, invoices, commission, completed>>
        /\ Finish(w)
    BY <1>0 DEF CommitReplacement, Reliable
  <1>2. /\ Placed = 1 .. Len(placements) /\ Len(placements) \in Nat /\ Placed \subseteq Ids
        /\ \A p \in Placed : placements[p] \in PlacementRow
    BY <1>0, Numbers
  <1>3. NewPlacement(req[w].app, old) \in PlacementRow /\ old \in Nat /\ old # None
    BY <1>1, <1>2 DEF NewPlacement, PlacementRow, Stored, None
  <1>4. new \in PlacementRow /\ new.for = placements[old].for /\ new.status = "replaced"
    BY <1>1, <1>2 DEF PlacementRow, Stored
  <1> HIDE DEF new
  <1>5. /\ s \in Seq(PlacementRow)
        /\ Len(s) = Len(placements)
        /\ \A p \in Placed : s[p] = IF p = old THEN new ELSE placements[p]
    BY <1>0, <1>1, <1>2, <1>4, ExceptSeq DEF Tables
  <1> HIDE DEF s
  <1>6. /\ placements' \in Seq(PlacementRow)
        /\ Len(placements') <= MaxPlacements
        /\ n \in Ids \ Placed
        /\ DOMAIN placements' = Placed \cup {n}
        /\ placements'[n] = NewPlacement(req[w].app, old)
        /\ \A p \in Placed : placements'[p] = s[p]
    BY <1>0, <1>1, <1>3, <1>5, Added
  <1> HIDE DEF n
  <1>7. \A p \in Placed : /\ placements'[p].for = placements[p].for
                          /\ p # old => placements'[p].status = placements[p].status
                          /\ p = old => placements'[p].status = "replaced"
    BY <1>4, <1>5, <1>6
  <1>8. Grows
    BY <1>1, <1>6, <1>7 DEF Grows
  <1>9. AllReliable' /\ (req = [v \in Worker \cup Sweeper |-> req[v]])'
    BY <1>1, <1>8, Finished
  <1>10. Tables'
    <2>1. \A p \in Placed : placements'[p].for \in {None} \cup DOMAIN placements'
      BY <1>0, <1>6, <1>7 DEF Tables
    <2>2. placements'[n].for \in {None} \cup DOMAIN placements'
      BY <1>1, <1>6 DEF NewPlacement
    <2> QED
      BY <1>0, <1>1, <1>6, <1>9, <2>1, <2>2 DEF Tables, Placed
  <1>11. Free'
    <2>1. ~Billed(n) /\ commission[n] = NoCommission
      BY <1>0, <1>6 DEF Billed, Tables
    <2>2. \A p : Billed(p)' <=> Billed(p)
      BY <1>1 DEF Billed
    <2> QED
      BY <1>0, <1>1, <1>6, <1>7, <2>1, <2>2 DEF Free, Placed
  <1>12. OutcomeReported' /\ ClearedAfterWindow'
    <2>1. \A p \in DOMAIN placements' :
            /\ placements'[p].status = "cleared" => completed[p]["cleared"] > 0
            /\ placements'[p].status \in {"breached", "replaced"} => completed[p]["breached"] > 0
      BY <1>0, <1>1, <1>6, <1>7 DEF OutcomeReported, NewPlacement
    <2>2. \A p \in DOMAIN placements' : completed[p]["cleared"] > 0 => p \in over
      BY <1>0, <1>6 DEF ClearedAfterWindow, Tables
    <2> QED
      BY <1>1, <2>1, <2>2 DEF OutcomeReported, ClearedAfterWindow, Placed
  <1> QED
    BY <1>9, <1>10, <1>11, <1>12 DEF IInv

\* A status is written, with the event that tells it: breach and sweep.
LEMMA StatusStep ==
  ASSUME IInv, NEW w \in Worker \cup Sweeper, Finish(w),
         NEW ps \in SUBSET Placed, NEW o \in Outcomes, o = "cleared" => ps \subseteq over,
         UNCHANGED <<joined, over, invoices, commission>>,
         placements' \in Seq(PlacementRow), DOMAIN placements' = Placed,
         \A p \in Placed : /\ placements'[p].for = placements[p].for
                           /\ placements'[p].status = IF p \in ps THEN o ELSE placements[p].status,
         completed' = [p \in Ids |-> IF p \in ps THEN [completed[p] EXCEPT ![o] = @ + 1]
                                     ELSE completed[p]]
  PROVE  IInv'
  <1>0. Tables /\ Free /\ OutcomeReported /\ ClearedAfterWindow
    BY DEF IInv
  <1>1. Placed \subseteq Ids /\ Len(placements) \in Nat /\ Placed = 1 .. Len(placements)
    BY <1>0, Numbers
  <1>2. \A p \in Ids : /\ completed[p] \in Counters
                       /\ completed[p]["cleared"] \in Nat /\ completed[p]["breached"] \in Nat
    BY <1>0 DEF Tables, Counters, Outcomes
  <1>3. ASSUME NEW p \in Ids
        PROVE  /\ completed'[p] \in Counters
               /\ completed'[p]["cleared"] = IF p \in ps /\ o = "cleared"
                                             THEN completed[p]["cleared"] + 1
                                             ELSE completed[p]["cleared"]
               /\ completed'[p]["breached"] = IF p \in ps /\ o = "breached"
                                              THEN completed[p]["breached"] + 1
                                              ELSE completed[p]["breached"]
    <2>1. CASE p \in ps
      <3>1. completed'[p] = [completed[p] EXCEPT ![o] = completed[p][o] + 1]
        BY <2>1
      <3>2. completed[p] \in [{"cleared", "breached"} -> Nat] /\ o \in {"cleared", "breached"}
        BY <1>2 DEF Counters, Outcomes
      <3> QED
        BY <2>1, <3>1, <3>2 DEF Counters, Outcomes
    <2>2. CASE p \notin ps
      BY <1>2, <2>2
    <2> QED
      BY <2>1, <2>2
  <1>4. Grows
    BY <1>1, <1>2, <1>3 DEF Grows
  <1>5. AllReliable' /\ (req = [v \in Worker \cup Sweeper |-> req[v]])'
    BY <1>4, Finished
  <1>6. Tables'
    <2>1. completed' \in [Ids -> Counters]
      BY <1>3
    <2>2. \A p \in Ids \ Placed : completed'[p]["cleared"] = 0
      BY <1>0, <1>3 DEF Tables
    <2>3. Len(placements') = Len(placements)
      BY <1>1, LenProperties
    <2> QED
      BY <1>0, <1>5, <2>1, <2>2, <2>3 DEF Tables, Placed
  <1>7. Free'
    BY <1>0 DEF Free, Billed, Placed
  <1>8. OutcomeReported'
    <2> SUFFICES ASSUME NEW p \in Placed
                 PROVE  /\ placements'[p].status = "cleared" => completed'[p]["cleared"] > 0
                        /\ placements'[p].status \in {"breached", "replaced"} =>
                             completed'[p]["breached"] > 0
      BY DEF OutcomeReported, Placed
    <2>1. /\ placements[p].status = "cleared" => completed[p]["cleared"] > 0
          /\ placements[p].status \in {"breached", "replaced"} => completed[p]["breached"] > 0
      BY <1>0 DEF OutcomeReported
    <2>2. p \in Ids /\ o \in {"cleared", "breached"}
      BY <1>1 DEF Outcomes
    <2> QED
      BY <1>2, <1>3, <2>1, <2>2
  <1>9. ClearedAfterWindow'
    BY <1>0, <1>1, <1>3 DEF ClearedAfterWindow, Placed
  <1> QED
    BY <1>5, <1>6, <1>7, <1>8, <1>9 DEF IInv

LEMMA BreachStep ==
  ASSUME IInv, NEW w \in Worker, CommitBreach(w)
  PROVE  IInv'
  <1> PICK p : p = req[w].placement
    OBVIOUS
  <1>0. Tables /\ Reliable(w)
    BY DEF IInv, AllReliable
  <1>1. /\ p \in Placed
        /\ placements' = [placements EXCEPT ![p].status = "breached"]
        /\ completed' = [completed EXCEPT ![p]["breached"] = completed[p]["breached"] + 1]
        /\ UNCHANGED <<joined, over, invoices, commission>>
        /\ Finish(w)
    BY <1>0 DEF CommitBreach, Reliable
  <1>2. /\ Placed = 1 .. Len(placements) /\ Placed \subseteq Ids
        /\ \A q \in Placed : placements[q] \in PlacementRow
    BY <1>0, Numbers
  <1>3. [placements[p] EXCEPT !.status = "breached"] \in PlacementRow
    BY <1>1, <1>2 DEF PlacementRow, Stored
  <1>4. placements' = [placements EXCEPT ![p] = [placements[p] EXCEPT !.status = "breached"]]
    BY <1>1
  <1>5. /\ placements' \in Seq(PlacementRow)
        /\ DOMAIN placements' = Placed
        /\ \A q \in Placed : placements'[q] = IF q = p THEN [placements[p] EXCEPT !.status = "breached"]
                                              ELSE placements[q]
    BY <1>0, <1>1, <1>2, <1>3, <1>4, ExceptSeq DEF Tables, Placed
  <1> PICK ps \in SUBSET Placed, o \in Outcomes :
        o = "breached" /\ \A q \in Placed : q \in ps <=> q = p
    <2>1. {p} \in SUBSET Placed /\ "breached" \in Outcomes
      BY <1>1 DEF Outcomes
    <2> QED
      BY <2>1
  <1>6. \A q \in Placed : /\ placements'[q].for = placements[q].for
                          /\ placements'[q].status = IF q \in ps THEN o
                                                     ELSE placements[q].status
    BY <1>2, <1>5 DEF PlacementRow
  <1>7. completed' = [q \in Ids |-> IF q \in ps THEN [completed[q] EXCEPT ![o] = @ + 1]
                                    ELSE completed[q]]
    BY <1>0, <1>1, <1>2 DEF Tables
  <1>8. /\ (o = "cleared" => ps \subseteq over)
        /\ Finish(w)
        /\ UNCHANGED <<joined, over, invoices, commission>>
        /\ placements' \in Seq(PlacementRow)
        /\ DOMAIN placements' = Placed
    BY <1>1, <1>5
  <1> QED
    BY <1>6, <1>7, <1>8, StatusStep

LEMMA SweepStep ==
  ASSUME IInv, NEW w \in Sweeper, CommitSweep(w)
  PROVE  IInv'
  <1> DEFINE due == req[w].due \cap Placed
  <1>0. Tables /\ Reliable(w)
    BY DEF IInv, AllReliable
  <1>1. /\ req[w].due \subseteq over
        /\ placements' = [p \in Placed |-> IF p \in req[w].due
                                           THEN [placements[p] EXCEPT !.status = "cleared"]
                                           ELSE placements[p]]
        /\ completed' = [p \in DOMAIN completed |->
                           IF p \in req[w].due THEN [completed[p] EXCEPT !["cleared"] = @ + 1]
                           ELSE completed[p]]
        /\ UNCHANGED <<joined, over, invoices, commission>>
        /\ Finish(w)
    BY <1>0 DEF CommitSweep, Reliable
  <1>2. over \subseteq Placed /\ DOMAIN completed = Ids
    BY <1>0 DEF Tables
  <1>3. req[w].due = due
    BY <1>1, <1>2
  <1> HIDE DEF due
  <1>4. /\ Placed = 1 .. Len(placements) /\ Len(placements) \in Nat
        /\ \A q \in Placed : placements[q] \in PlacementRow
    BY <1>0, Numbers
  <1>5. \A p \in Placed : placements'[p] = IF p \in due
                                           THEN [placements[p] EXCEPT !.status = "cleared"]
                                           ELSE placements[p]
    BY <1>1, <1>3
  <1>6. \A p \in Placed : /\ placements'[p] \in PlacementRow
                          /\ placements'[p].for = placements[p].for
                          /\ placements'[p].status = IF p \in due THEN "cleared"
                                                     ELSE placements[p].status
    BY <1>4, <1>5 DEF PlacementRow, Stored
  <1>7. placements' \in [1 .. Len(placements) -> PlacementRow] /\ DOMAIN placements' = Placed
    BY <1>1, <1>4, <1>6
  <1>8. placements' \in Seq(PlacementRow)
    BY <1>4, <1>7, SeqDef
  <1>9. completed' = [p \in Ids |-> IF p \in due THEN [completed[p] EXCEPT !["cleared"] = @ + 1]
                                    ELSE completed[p]]
    BY <1>1, <1>2, <1>3
  <1>10. due \in SUBSET Placed /\ due \subseteq over
    BY <1>1, <1>2, <1>3
  <1> QED
    BY <1>1, <1>6, <1>7, <1>8, <1>9, <1>10, StatusStep DEF Outcomes

LEMMA CreditNoteStep ==
  ASSUME IInv, NEW w \in Worker, CommitCreditNote(w)
  PROVE  IInv'
  <1> DEFINE i == req[w].invoice
             p == invoices[i].placement
             note == [placement |-> p, creditOf |-> i]
  <1>0. Tables /\ Free /\ OutcomeReported /\ ClearedAfterWindow /\ Reliable(w)
    BY DEF IInv, AllReliable
  <1>1. /\ i \in DOMAIN invoices
        /\ req[w].accrued \in BOOLEAN
        /\ req[w].accrued => commission[p] # NoCommission
        /\ invoices' = Append(invoices, note)
        /\ commission' = IF req[w].accrued THEN [commission EXCEPT ![p] = "void"] ELSE commission
        /\ UNCHANGED <<joined, placements, over, completed>>
        /\ Finish(w)
    BY <1>0 DEF CommitCreditNote, Reliable
  <1>2. /\ DOMAIN invoices = 1 .. Len(invoices) /\ Placed \subseteq Ids
        /\ Placed = 1 .. Len(placements) /\ Len(placements) \in Nat /\ p \in Placed
    BY <1>0, <1>1, Numbers DEF Tables
  <1>3. note \in InvoiceRow /\ i # None
    BY <1>1, <1>2 DEF InvoiceRow, None
  <1>4. \E m : /\ invoices' \in Seq(InvoiceRow)
               /\ DOMAIN invoices' = DOMAIN invoices \cup {m}
               /\ m \notin DOMAIN invoices
               /\ invoices'[m] = note
               /\ \A j \in DOMAIN invoices : invoices'[j] = invoices[j]
    BY <1>0, <1>1, <1>3, Invoiced
  <1>5. /\ commission' \in [Ids -> {NoCommission, "accrued", "paid", "void"}]
        /\ \A q \in Ids : commission'[q] = NoCommission <=> commission[q] = NoCommission
    BY <1>0, <1>1, <1>2 DEF Tables, NoCommission
  <1>6. note.creditOf = i /\ note.placement = p
    OBVIOUS
  <1> HIDE DEF note, p, i
  <1>7. Grows
    BY <1>1, <1>2, <1>4, <1>5 DEF Grows, Placed
  <1>8. AllReliable' /\ (req = [v \in Worker \cup Sweeper |-> req[v]])'
    BY <1>1, <1>7, Finished
  <1>9. Tables'
    <2>1. \A j \in DOMAIN invoices' : /\ invoices'[j].placement \in Placed
                                      /\ invoices'[j].creditOf \in {None} \cup DOMAIN invoices'
      BY <1>0, <1>1, <1>2, <1>4, <1>6 DEF Tables
    <2>2. \A q \in Ids \ Placed : commission'[q] = NoCommission
      BY <1>0, <1>5 DEF Tables
    <2> QED
      BY <1>0, <1>1, <1>4, <1>5, <1>8, <2>1, <2>2 DEF Tables, Placed
  <1>10. Free'
    <2>1. \A q \in Placed : Billed(q)' <=> Billed(q)
      BY <1>3, <1>4, <1>6 DEF Billed
    <2> QED
      BY <1>0, <1>1, <1>2, <1>5, <2>1 DEF Free, Placed
  <1>11. OutcomeReported' /\ ClearedAfterWindow'
    BY <1>0, <1>1 DEF OutcomeReported, ClearedAfterWindow, Placed
  <1> QED
    BY <1>8, <1>9, <1>10, <1>11 DEF IInv

\* A commission takes a status that is not none: accrual and settlement.
LEMMA CommissionStep ==
  ASSUME IInv, NEW w \in Worker, Finish(w),
         NEW p \in Placed, Billed(p), placements[p].for = None,
         NEW to \in {"accrued", "paid", "void"},
         commission' = [commission EXCEPT ![p] = to],
         UNCHANGED <<joined, placements, over, invoices, completed>>
  PROVE  IInv'
  <1>0. Tables /\ Free /\ OutcomeReported /\ ClearedAfterWindow
    BY DEF IInv
  <1>1. Placed \subseteq Ids
    BY <1>0, Numbers
  <1>2. /\ commission' \in [Ids -> {NoCommission, "accrued", "paid", "void"}]
        /\ \A q \in Ids : commission'[q] = IF q = p THEN to ELSE commission[q]
    BY <1>0, <1>1 DEF Tables
  <1>3. Grows
    BY <1>1, <1>2 DEF Grows, Placed, NoCommission
  <1>4. AllReliable' /\ (req = [v \in Worker \cup Sweeper |-> req[v]])'
    BY <1>3, Finished
  <1>5. Tables'
    BY <1>0, <1>2, <1>4 DEF Tables, Placed
  <1>6. Free'
    BY <1>0, <1>1, <1>2 DEF Free, Billed, Placed, None
  <1>7. OutcomeReported' /\ ClearedAfterWindow'
    BY <1>0 DEF OutcomeReported, ClearedAfterWindow, Placed
  <1> QED
    BY <1>4, <1>5, <1>6, <1>7 DEF IInv

\* The pipeline and the calendar.
LEMMA AroundStep ==
  ASSUME IInv, joined' \subseteq App, over \subseteq over', over' \subseteq Placed,
         UNCHANGED <<placements, invoices, commission, completed, req>>
  PROVE  IInv'
  <1>1. Grows
    BY DEF Grows, Placed
  <1>2. AllReliable'
    BY <1>1, StaysReliable DEF AllReliable
  <1>3. Tables'
    BY DEF IInv, Tables, Placed
  <1>4. Free' /\ OutcomeReported' /\ ClearedAfterWindow'
    BY DEF IInv, Free, Billed, OutcomeReported, ClearedAfterWindow, Placed
  <1> QED
    BY <1>2, <1>3, <1>4 DEF IInv

-----------------------------------------------------------------------------

\* Every step of a request or a sweep that only loads.
LEMMA LoadingStep ==
  ASSUME IInv, NEW w \in Worker \cup Sweeper, Request(w) \/ StartSweep(w) \/ Fail(w)
  PROVE  IInv'
  <1>0. Tables /\ Free /\ OutcomeReported /\ Reliable(w) /\ req = [v \in Worker \cup Sweeper |-> req[v]]
    BY DEF IInv, AllReliable, Tables
  <1>1. ASSUME NEW a \in App, PostPlacement(w, a) PROVE IInv'
    <2> DEFINE r == [op |-> "place", app |-> a]
    <2>1. UNCHANGED rows /\ req' = [req EXCEPT ![w] = r]
      BY <1>1 DEF PostPlacement, Begin
    <2>2. Reliable(w)'
      BY <1>0, <2>1 DEF Reliable
    <2> QED
      BY <2>1, <2>2, Loaded
  <1>2. ASSUME NEW p \in Placed, PostBreach(w, p) PROVE IInv'
    <2> DEFINE r == [op |-> "breach", placement |-> p]
    <2>1. UNCHANGED rows /\ req' = [req EXCEPT ![w] = r]
      BY <1>2 DEF PostBreach, Begin
    <2>2. Reliable(w)'
      BY <1>0, <2>1 DEF Reliable, Placed, rows
    <2> QED
      BY <2>1, <2>2, Loaded
  <1>3. ASSUME NEW p \in Placed, NEW a \in App, PostReplacement(w, p, a) PROVE IInv'
    <2> DEFINE r == [op |-> "replace", placement |-> p, app |-> a]
    <2>1. UNCHANGED rows /\ req' = [req EXCEPT ![w] = r] /\ placements[p].status = "breached"
      BY <1>3 DEF PostReplacement, Begin
    <2>2. completed[p]["breached"] > 0
      BY <1>0, <2>1 DEF OutcomeReported
    <2>3. Reliable(w)'
      BY <1>0, <2>1, <2>2 DEF Reliable, Placed, rows
    <2> QED
      BY <2>1, <2>3, Loaded
  <1>4. ASSUME NEW p \in Placed, PostCommission(w, p) PROVE IInv'
    <2> DEFINE r == [op |-> "accrue", placement |-> p]
    <2>1. UNCHANGED rows /\ req' = [req EXCEPT ![w] = r] /\ FeeBearing(p)
      BY <1>4 DEF PostCommission, Begin
    <2>2. placements[p].for = None /\ FeeInvoices(p) # {}
      BY <2>1, FS_EmptySet DEF FeeBearing
    <2>3. Billed(p)
      BY <2>2, BilledIsInvoiced
    <2>4. Reliable(w)'
      BY <1>0, <2>1, <2>2, <2>3 DEF Reliable, Billed, Placed, rows
    <2> QED
      BY <2>1, <2>4, Loaded
  <1>5. ASSUME NEW p \in Placed, PostVoid(w, p) \/ PostMarkPaid(w, p) PROVE IInv'
    <2>1. PICK to \in {"void", "paid"} :
            /\ UNCHANGED rows
            /\ req' = [req EXCEPT ![w] = [op |-> "settle", placement |-> p, to |-> to]]
            /\ commission[p] = "accrued"
      BY <1>5 DEF PostVoid, PostMarkPaid, Begin
    <2>2. Reliable(w)'
      BY <1>0, <2>1 DEF Reliable, Placed, rows, NoCommission
    <2> QED
      BY <2>1, <2>2, Loaded
  <1>6. ASSUME NEW i \in DOMAIN invoices, PostCreditNote(w, i) PROVE IInv'
    <2> DEFINE r == [op |-> "credit", invoice |-> i]
    <2>1. UNCHANGED rows /\ req' = [req EXCEPT ![w] = r]
      BY <1>6 DEF PostCreditNote, Begin
    <2>2. Reliable(w)'
      BY <1>0, <2>1 DEF Reliable, rows
    <2> QED
      BY <2>1, <2>2, Loaded
  <1>7. ASSUME LoadAccrued(w) PROVE IInv'
    <2> PICK i, b : i = req[w].invoice /\ b = (commission[invoices[i].placement] = "accrued")
      OBVIOUS
    <2> DEFINE r == [op |-> "void accrued", invoice |-> i, accrued |-> b]
    <2>1. UNCHANGED rows /\ req' = [req EXCEPT ![w] = r] /\ i \in DOMAIN invoices
      BY <1>0, <1>7 DEF LoadAccrued, Reliable
    <2>2. b => commission[invoices[i].placement] # NoCommission
      BY DEF NoCommission
    <2>3. b \in BOOLEAN
      OBVIOUS
    <2>4. Reliable(w)'
      <3>1. /\ req'[w].op = "void accrued"
            /\ req'[w].invoice = i
            /\ req'[w].accrued = b
        BY <1>0, <2>1
      <3>2. /\ i \in DOMAIN invoices' /\ (b => commission'[invoices'[i].placement] # NoCommission)
        BY <2>1, <2>2 DEF rows
      <3> QED
        BY <3>1, <3>2, <2>3 DEF Reliable
    <2> QED
      BY <2>1, <2>4, Loaded
  <1>8. ASSUME StartSweep(w) PROVE IInv'
    <2> DEFINE r == [op |-> "sweep", due |-> Due]
    <2>1. UNCHANGED rows /\ req' = [req EXCEPT ![w] = r] /\ Due \subseteq over
      BY <1>8 DEF StartSweep, Begin, Due
    <2> HIDE DEF r
    <2>2. Reliable(w)'
      BY <1>0, <2>1 DEF Reliable, rows, r
    <2> QED
      BY <2>1, <2>2, Loaded
  <1>9. ASSUME Fail(w) PROVE IInv'
    <2>1. UNCHANGED rows /\ req' = [req EXCEPT ![w] = Idle]
      BY <1>9 DEF Fail, Finish
    <2>2. Reliable(w)'
      BY <1>0, <2>1 DEF Reliable, Idle
    <2> QED
      BY <2>1, <2>2, Loaded
  <1> QED
    BY <1>1, <1>2, <1>3, <1>4, <1>5, <1>6, <1>7, <1>8, <1>9 DEF Request

LEMMA CommittingStep ==
  ASSUME IInv, NEW w \in Worker, Commit(w)
  PROVE  IInv'
  <1>0. Tables /\ Free /\ Reliable(w)
    BY DEF IInv, AllReliable
  <1>1. CASE CommitPlacement(w)
    BY <1>1, PlacementStep
  <1>2. CASE CommitBreach(w)
    BY <1>2, BreachStep
  <1>3. CASE CommitReplacement(w)
    BY <1>3, ReplacementStep
  <1>4. CASE CommitCreditNote(w)
    BY <1>4, CreditNoteStep
  <1>5. CASE CommitCommission(w)
    <2>1. /\ req[w].placement \in Placed
          /\ placements[req[w].placement].for = None
          /\ Billed(req[w].placement)
          /\ commission' = [commission EXCEPT ![req[w].placement] = "accrued"]
          /\ UNCHANGED <<joined, placements, over, invoices, completed>>
          /\ Finish(w)
      BY <1>0, <1>5 DEF CommitCommission, Reliable
    <2> QED
      BY <2>1, CommissionStep
  <1>6. CASE CommitSettlement(w)
    <2>1. /\ req[w].placement \in Placed
          /\ commission[req[w].placement] # NoCommission
          /\ req[w].to \in {"accrued", "paid", "void"}
          /\ commission' = [commission EXCEPT ![req[w].placement] = req[w].to]
          /\ UNCHANGED <<joined, placements, over, invoices, completed>>
          /\ Finish(w)
      BY <1>0, <1>6 DEF CommitSettlement, Reliable
    <2>2. placements[req[w].placement].for = None /\ Billed(req[w].placement)
      BY <1>0, <2>1 DEF Free
    <2> QED
      BY <2>1, <2>2, CommissionStep
  <1> QED
    BY <1>1, <1>2, <1>3, <1>4, <1>5, <1>6 DEF Commit

\* The inductive invariant.
LEMMA Invariance == Spec => []IInv
  <1>1. Init => IInv
    <2> SUFFICES ASSUME Init PROVE IInv
      OBVIOUS
    <2>1. /\ placements = <<>> /\ invoices = <<>> /\ Placed = {} /\ DOMAIN invoices = {}
          /\ placements \in Seq(PlacementRow) /\ invoices \in Seq(InvoiceRow) /\ Len(placements) = 0
      BY EmptySeq DEF Init, Placed
    <2>2. /\ commission \in [Ids -> {NoCommission, "accrued", "paid", "void"}]
          /\ \A p \in Ids : commission[p] = NoCommission
      BY DEF Init, Ids
    <2>3. completed \in [Ids -> Counters] /\ \A p \in Ids : completed[p]["cleared"] = 0
      BY DEF Init, Ids, Counters, Outcomes
    <2>4. Tables
      BY <2>1, <2>2, <2>3, PlacementAssumption DEF Init, Tables
    <2>5. Free /\ OutcomeReported /\ ClearedAfterWindow
      BY <2>1 DEF Free, OutcomeReported, ClearedAfterWindow
    <2>6. AllReliable
      BY DEF Init, AllReliable, Reliable, Idle
    <2> QED
      BY <2>4, <2>5, <2>6 DEF IInv
  <1>2. IInv /\ [Next]_vars => IInv'
    <2> SUFFICES ASSUME IInv, [Next]_vars PROVE IInv'
      OBVIOUS
    <2>1. Tables
      BY DEF IInv
    <2>2. ASSUME NEW w \in Worker, Request(w) \/ Fail(w) PROVE IInv'
      BY <2>2, LoadingStep
    <2>3. ASSUME NEW w \in Worker, Commit(w) PROVE IInv'
      BY <2>3, CommittingStep
    <2>4. ASSUME NEW w \in Sweeper, StartSweep(w) \/ Fail(w) PROVE IInv'
      BY <2>4, LoadingStep
    <2>5. ASSUME NEW w \in Sweeper, CommitSweep(w) PROVE IInv'
      BY <2>5, SweepStep
    <2>6. ASSUME NEW a \in App, Join(a) \/ MoveOn(a) PROVE IInv'
      BY <2>1, <2>6, AroundStep DEF Join, MoveOn, Tables
    <2>7. ASSUME NEW p \in Placed, WindowEnds(p) PROVE IInv'
      BY <2>1, <2>7, AroundStep DEF WindowEnds, Tables
    <2>8. CASE UNCHANGED vars
      BY <2>1, <2>8, AroundStep DEF vars, Tables
    <2> QED
      BY <2>2, <2>3, <2>4, <2>5, <2>6, <2>7, <2>8 DEF Next
  <1> QED
    BY <1>1, <1>2, PTL DEF Spec

-----------------------------------------------------------------------------

\* For any applications, requests and sweeps: a replacement is free, what
\* earned a commission was billed, and a status shows only what was reported,
\* 'cleared' after its window (placements.py:71-317, vendor_mgmt.py:183-298,
\* jobs.py:43-61).
THEOREM PlacementsHold == Spec => []PlacementsKept
  <1>1. IInv => PlacementsKept
    <2> SUFFICES ASSUME IInv PROVE PlacementsKept
      OBVIOUS
    <2>0. Tables /\ Free /\ OutcomeReported /\ ClearedAfterWindow
      BY DEF IInv
    <2>1. placements \in Seq([app : App, status : Stored, for : {None} \cup Placed])
      <3>1. \A p \in DOMAIN placements :
              placements[p] \in [app : App, status : Stored, for : {None} \cup Placed]
        BY <2>0, Numbers DEF Tables, PlacementRow, Placed
      <3> QED
        BY <2>0, <3>1, Narrowed DEF Tables
    <2>2. invoices \in Seq([placement : Placed, creditOf : {None} \cup DOMAIN invoices])
      <3>1. \A i \in DOMAIN invoices :
              invoices[i] \in [placement : Placed, creditOf : {None} \cup DOMAIN invoices]
        BY <2>0, Numbers DEF Tables, InvoiceRow
      <3> QED
        BY <2>0, <3>1, Narrowed DEF Tables
    <2>3. PlacementTypeOK
      BY <2>0, <2>1, <2>2 DEF PlacementTypeOK, Tables, Stored, Counters
    <2>4. ReplacementIsFree
      BY <2>0, BilledIsInvoiced DEF ReplacementIsFree, Free
    <2> QED
      BY <2>0, <2>3, <2>4 DEF PlacementsKept
  <1> QED
    BY <1>1, Invariance, PTL
=============================================================================
