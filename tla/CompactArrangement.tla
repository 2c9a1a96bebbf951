------------------------- MODULE CompactArrangement -------------------------
(***************************************************************************)
(* The arrangement of the records in the compact OSD: an order over all    *)
(* records, those not shown included, and the set of the placed slots      *)
(* after which a row ends (tray/osd_compact.hpp).  The user picks a cell   *)
(* up, releases it somewhere, and the cell nearest to the release decides  *)
(* what the release means; records are switched on and off in between, and *)
(* a restart reads the arrangement back from one word of the registry.     *)
(* Slots, rows and columns count from 1; lengths are in dip at scale 1.    *)
(***************************************************************************)
EXTENDS Integers, Sequences, FiniteSets

LOCAL INSTANCE SequencesExt

CONSTANTS
  Records,      (* the default order of the records, each of them once     *)
  Optional,     (* those that can be switched off                          *)
  DragX, DragY, (* where a release may be, relative to the origin of a cell *)
  Words         (* what others may have left in the registry               *)

VARIABLES
  layout,       (* the order and the breaks                                *)
  shown,        (* the records that are shown                              *)
  dragged       (* the slot that was picked up, or 0                       *)

vars == <<layout, shown, dragged>>

N == Len(Records)
NoDrag == 0
DefaultLayout == [order |-> Records, breaks |-> {}]

IsValidLayout(l) ==
  /\ Len(l.order) = N /\ ToSet(l.order) = ToSet(Records)
  /\ l.breaks \subseteq 1 .. N - 1

-----------------------------------------------------------------------------
(* Placement: the shown records in order, cut into rows.  The rule for an  *)
(* arrangement narrower than kMinimumWidestRow never applies: it is 1.     *)

Resolve(l, enabled) ==
  LET cells == SelectSeq(l.order, LAMBDA m : m \in enabled)
      ends == SelectSeq([s \in DOMAIN cells |-> s],
                        LAMBDA s : s = Len(cells) \/ s \in l.breaks)
  IN [cells |-> cells,
      rows |-> [r \in DOMAIN ends |-> ends[r] - (IF r = 1 THEN 0 ELSE ends[r - 1])]]

(* The slots before a row; of the row after the last, all slots.           *)
RowStart(rows, row) ==
  LET before[r \in 1 .. Len(rows) + 1] == IF r = 1 THEN 0 ELSE before[r - 1] + rows[r - 1]
  IN before[row]
RowOf(rows, slot) ==
  CHOOSE r \in DOMAIN rows : RowStart(rows, r) < slot /\ slot <= RowStart(rows, r + 1)
ColumnOf(rows, slot) == slot - RowStart(rows, RowOf(rows, slot))

(* A mutant: the last two rows become one.                                 *)
BreaksFromRowsShort(rows) == {RowStart(rows, r + 1) : r \in 1 .. Len(rows) - 2}

BreaksFromRows(rows) == {RowStart(rows, r + 1) : r \in 1 .. Len(rows) - 1}

(* The position in the order of a placed slot.                             *)
OrderIndex(l, placed, slot) ==
  CHOOSE i \in 1 .. N : l.order[i] = placed.cells[slot]

MoveInsert(order, from, to) == InsertAt(RemoveAt(order, from), to, order[from])

(* The record of a slot moves to a slot of the given rows.                 *)
Moved(l, placed, from, destination, rows) ==
  [order |-> MoveInsert(l.order, OrderIndex(l, placed, from),
                        OrderIndex(l, placed, destination)),
   breaks |-> BreaksFromRows(rows)]

Positive(rows) == SelectSeq(rows, LAMBDA length : length > 0)
AtMost(x, bound) == IF x > bound THEN bound ELSE x

(* A release on a row inserts at a column of it; the columns are those     *)
(* after the record has left its row.                                      *)
ApplyDrop(l, placed, from, row, column) ==
  LET below == row = Len(placed.rows) + 1
      left == [placed.rows EXCEPT ![RowOf(placed.rows, from)] = @ - 1]
      open == IF below THEN Append(left, 0) ELSE left
      at == AtMost(column, open[row] + 1)
      filled == [open EXCEPT ![row] = @ + 1]
      emptied == Len(SelectSeq(SubSeq(filled, 1, row - 1), LAMBDA length : length = 0))
      rows == Positive(filled)
      destination == AtMost(RowStart(rows, row - emptied) + at, Len(placed.cells))
  IN IF below /\ Len(placed.rows) >= N THEN l
     ELSE Moved(l, placed, from, destination, rows)

(* A row of its own for the record; the row it leaves is closed first.     *)
ApplyDropRow(l, placed, from, row) ==
  LET left == [placed.rows EXCEPT ![RowOf(placed.rows, from)] = @ - 1]
      closed == Len(SelectSeq(SubSeq(left, 1, row - 1), LAMBDA length : length = 0))
      others == Positive(left)
      target == row - closed
      rows == InsertAt(others, target, 1)
      destination == AtMost(RowStart(rows, target) + 1, Len(placed.cells))
  IN IF Len(others) >= N THEN l ELSE Moved(l, placed, from, destination, rows)

(* Two records trade places and nothing else moves.                        *)
ApplySwap(l, placed, from, to) ==
  LET i == OrderIndex(l, placed, from)
      j == OrderIndex(l, placed, to)
  IN [l EXCEPT !.order[i] = l.order[j], !.order[j] = l.order[i]]

-----------------------------------------------------------------------------
(* What a release means: the offsets from the nearest cell are compared in *)
(* half-cells of 36 by 25.5 dip.                                           *)

Stride == 76
RowPitch == 55
Margin == 6
Top == 30
CellWidth == 72
CellHeight == 51

Abs(x) == IF x < 0 THEN -x ELSE x

CellOriginAt(rows, slot) ==
  [x |-> Margin + (ColumnOf(rows, slot) - 1) * Stride,
   y |-> Top + (RowOf(rows, slot) - 1) * RowPitch]

DropPlan(action, slot, row, column) ==
  [action |-> action, slot |-> slot, row |-> row, column |-> column]

CellGrid(placed) == [s \in DOMAIN placed.cells |-> CellOriginAt(placed.rows, s)]

PlanDrop(grid, placed, x, y) ==
  LET offset == [s \in DOMAIN grid |-> [x |-> x - grid[s].x, y |-> y - grid[s].y]]
      distance == [s \in DOMAIN grid |->
                     (offset[s].x * CellHeight) * (offset[s].x * CellHeight)
                       + (offset[s].y * CellWidth) * (offset[s].y * CellWidth)]
      nearest == CHOOSE s \in DOMAIN grid : \A t \in DOMAIN grid :
                   distance[s] < distance[t] \/ (distance[s] = distance[t] /\ s <= t)
      away == [x |-> Abs(offset[nearest].x), y |-> Abs(offset[nearest].y)]
      row == RowOf(placed.rows, nearest)
      column == ColumnOf(placed.rows, nearest)
  IN CASE away.x > CellWidth \/ away.y > CellHeight -> DropPlan("None", 0, 0, 0)
       [] 4 * away.x <= CellWidth /\ 4 * away.y <= CellHeight ->
            DropPlan("Swap", nearest, 0, 0)
       [] OTHER ->
            IF away.y * CellWidth > away.x * CellHeight
            THEN DropPlan("InsertRow", nearest, IF offset[nearest].y < 0 THEN row ELSE row + 1, 0)
            ELSE DropPlan("InsertInRow", nearest, row,
                          IF offset[nearest].x < 0 THEN column ELSE column + 1)

ApplyPlan(l, placed, from, plan) ==
  CASE plan.action = "None" -> l
    [] plan.action = "Swap" -> ApplySwap(l, placed, from, plan.slot)
    [] plan.action = "InsertInRow" -> ApplyDrop(l, placed, from, plan.row, plan.column)
    [] plan.action = "InsertRow" -> ApplyDropRow(l, placed, from, plan.row)

-----------------------------------------------------------------------------
(* The stored word: a format tag, the records by index, the breaks.        *)

PackLayout(l) == [format |-> 1,
                  indices |-> [i \in 1 .. N |-> CHOOSE k \in 1 .. N : Records[k] = l.order[i]],
                  breaks |-> l.breaks]

(* A mutant: what the registry holds is taken as it is.                    *)
SanitizeLayoutTrusting(word) ==
  [order |-> [i \in 1 .. N |-> Records[word.indices[i]]], breaks |-> word.breaks]

(* A word that cannot be trusted is discarded whole.                       *)
SanitizeLayout(word) ==
  LET order == [i \in 1 .. N |-> IF word.indices[i] \in 1 .. N THEN Records[word.indices[i]]
                                 ELSE "none"]
      read == [order |-> order, breaks |-> word.breaks]
  IN IF word.format = 1 /\ IsValidLayout(read) THEN read ELSE DefaultLayout

-----------------------------------------------------------------------------
Placed == Resolve(layout, shown)

Init ==
  /\ layout \in {SanitizeLayout(word) : word \in Words}
  /\ shown \in {ToSet(Records) \ hidden : hidden \in SUBSET Optional}
  /\ dragged = NoDrag

(* A press squarely on a cell of an unlocked compact window.               *)
PickUp(slot) ==
  /\ dragged = NoDrag /\ slot \in DOMAIN Placed.cells
  /\ dragged' = slot
  /\ UNCHANGED <<layout, shown>>

(* Where the origin of the dragged image may be released, and what that    *)
(* means.                                                                  *)
Plans ==
  LET placed == Placed
      grid == CellGrid(placed)
  IN {PlanDrop(grid, placed, grid[s].x + dx, grid[s].y + dy) :
        s \in DOMAIN grid, dx \in DragX, dy \in DragY}

(* FinishArrangement.  The slot that was picked up is looked up in the     *)
(* placement of now; one beyond it changes nothing.                        *)
Release(plan) ==
  /\ dragged # NoDrag
  /\ dragged' = NoDrag
  /\ layout' = IF dragged \in DOMAIN Placed.cells
               THEN ApplyPlan(layout, Placed, dragged, plan) ELSE layout
  /\ UNCHANGED shown

(* Capture lost or cancelled.                                              *)
Abandon == dragged # NoDrag /\ dragged' = NoDrag /\ UNCHANGED <<layout, shown>>

(* SetRamEnabled, SetFpsEnabled, SetNetEnabled.                            *)
SwitchRecord(m) ==
  /\ shown' = IF m \in shown THEN shown \ {m} ELSE shown \cup {m}
  /\ UNCHANGED <<layout, dragged>>

(* OnResetOsdLayout.                                                       *)
ResetLayout == layout' = DefaultLayout /\ UNCHANGED <<shown, dragged>>

(* The program ends and reads the word back, or finds one that another     *)
(* build or another program left there.                                    *)
Restart ==
  /\ \E word \in Words \cup {PackLayout(layout)} : layout' = SanitizeLayout(word)
  /\ dragged' = NoDrag
  /\ UNCHANGED shown

Next ==
  \/ \E slot \in 1 .. N : PickUp(slot)
  \/ dragged # NoDrag /\ \E plan \in Plans : Release(plan)
  \/ Abandon
  \/ \E m \in Optional : SwitchRecord(m)
  \/ ResetLayout
  \/ Restart

Spec == Init /\ [][Next]_vars

-----------------------------------------------------------------------------
(* The rows as the user sees them.                                         *)
Rows(placed) ==
  [r \in DOMAIN placed.rows |->
     SubSeq(placed.cells, RowStart(placed.rows, r) + 1, RowStart(placed.rows, r + 1))]

Without(rows, m) ==
  SelectSeq([r \in DOMAIN rows |-> SelectSeq(rows[r], LAMBDA k : k # m)],
            LAMBDA row : row # <<>>)

RowWith(rows, m) == CHOOSE r \in DOMAIN rows : m \in ToSet(rows[r])
Exchanged(rows, m, k) ==
  [r \in DOMAIN rows |-> [c \in DOMAIN rows[r] |->
     CASE rows[r][c] = m -> k [] rows[r][c] = k -> m [] OTHER -> rows[r][c]]]

(* Every record is placed exactly once in rows none of which is empty,     *)
(* whatever was dragged, hidden and read back: an arrangement can never    *)
(* hide a record (osd_compact.hpp:171-175).                                *)
NoRecordLost ==
  /\ IsValidLayout(layout) /\ dragged \in 0 .. N
  /\ ToSet(Placed.cells) = shown /\ IsInjective(Placed.cells)
  /\ \A r \in DOMAIN Placed.rows : Placed.rows[r] > 0
  /\ RowStart(Placed.rows, Len(Placed.rows) + 1) = Cardinality(shown)

(* What a release of the dragged record does to the rows on the screen,    *)
(* said of the rows themselves: beside a cell, the record joins its row    *)
(* and every other row keeps its records and their order; above or below,  *)
(* it gets a row of its own next to the row it was read against; on a      *)
(* cell, the two trade places.  Rows left empty close up, and records that *)
(* are not shown change nothing.  On which side of the cell it is inserted *)
(* is not said: the column is counted before the record leaves its row, so *)
(* that within a row the code goes one cell too far to the right.          *)
DropOutcome(before, after, m, plan, near) ==
  CASE plan.action = "None" -> after = before
    [] plan.action = "Swap" -> after = Exchanged(before, m, near)
    [] plan.action = "InsertInRow" ->
         Without(after, m) = Without(before, m) /\ near \in ToSet(after[RowWith(after, m)])
    [] plan.action = "InsertRow" ->
         \/ m = near /\ Without(after, m) = Without(before, m)
         \/ /\ Without(after, m) = Without(before, m)
            /\ after[RowWith(after, m)] = <<m>>
            /\ \/ RowWith(before, m) = RowWith(before, near)
               \/ RowWith(after, m) = RowWith(after, near)
                                        + (IF plan.row > RowWith(before, near) THEN 1 ELSE -1)

DropsAsPlanned ==
  dragged \in DOMAIN Placed.cells =>
    LET placed == Placed
        m == placed.cells[dragged]
    IN \A plan \in Plans :
         DropOutcome(Rows(placed), Rows(Resolve(ApplyPlan(layout, placed, dragged, plan), shown)),
                     m, plan, IF plan.slot = 0 THEN m ELSE placed.cells[plan.slot])
=============================================================================
