--------------------------- MODULE UserInterface ---------------------------
(***************************************************************************)
(* The user interface the sandbox builds (setupUI, widgets.h) and the two  *)
(* systems of ui.cpp that run over it in every tick, in this order:        *)
(* UILayoutSystem::update, which computes where an element is, and         *)
(* UIInteractionSystem::update, which gives the pointer to one element.    *)
(*                                                                         *)
(* The interactive part is a scroll view with a column of rows in it and a *)
(* button above it that clears the selection. The window is a set of       *)
(* places; the places 1..Window are the scroll view's.                     *)
(***************************************************************************)
EXTENDS Integers

CONSTANTS
  Rows,        \* how many rows the list has
  Window,      \* how many of them its view shows
  SelectSpot   \* the places of the other button

ASSUME UserInterfaceAssumption ==
  Rows \in Nat /\ Window \in 1..Rows /\ SelectSpot \subseteq Nat

Select  == 0               \* Selection_Button
Buttons == {Select} \cup 1..Rows

VARIABLES
  hovered,   \* isHovered
  pressed,   \* isPressed
  lit,       \* the buttons that have their hoverColor
  offset,    \* scrollOffset of the view
  laid,      \* the offset the last layout placed the rows with
  aimed,     \* the place the last interaction was given
  fired      \* how many times an onClick has run

ui == <<hovered, pressed, lit, offset, laid, aimed, fired>>

InitUI ==
  /\ hovered = {} /\ pressed = {} /\ lit = {}
  /\ offset = 0 /\ laid = 0 /\ aimed = 0 /\ fired = 0

\* UILayoutSystem::update: the rows move by the offset of the view.
Layout == laid' = offset

\* Who is above: begin gives a child two more than its parent, the panel of the
\* button has 10, and a scroll view, which begin does not make, stays at 0.
zIndex(b) == IF b = Select THEN 12 ELSE 2

\* Where an element is after the layout, clipped by the view it is in.
Clipped(b) == IF b = Select THEN SelectSpot ELSE {b - laid} \cap 1..Window

\* The first element in the descending order of z that is under the pointer.
Top(x) ==
  {b \in Buttons : x \in Clipped(b) /\ \A c \in Buttons : x \in Clipped(c) => zIndex(c) <= zIndex(b)}

\* Mutant: the branch of an element that is clipped away misses its callback.
LeftInView(top) == {b \in hovered \ top : Clipped(b) # {}}

\* Those that get onHover(false), in whichever branch of the loop they end.
Left(top) == hovered \ top

\* Mutant: isPressed is not reset by the click.
StayPressed(top, left) == IF left THEN top ELSE pressed

\* isPressed of the element that has the pointer; every other one loses it.
Pressed(top, left) == IF left THEN top ELSE {}

Clamp(low, n, high) == IF n < low THEN low ELSE IF n > high THEN high ELSE n

\* The view takes a turn of the wheel also when a button has the pointer.
Scrolls(x, delta) == delta # 0 /\ x \in 1..Window

\* outInputConsumed
Consumed(x, delta) == Top(x) # {} \/ Scrolls(x, delta)

\* The onClick of the elements that were pressed under the pointer and are not.
Clicked(x, left) == IF left THEN {} ELSE pressed \cap Top(x)

\* UIInteractionSystem::update
Interact(x, left, delta) ==
  LET top == Top(x) IN
  /\ aimed' = x
  /\ hovered' = top
  /\ pressed' = Pressed(top, left)
  /\ lit' = (lit \ Left(top)) \cup (top \ hovered)
  /\ fired' = fired + IF Clicked(x, left) = {} THEN 0 ELSE 1
  /\ offset' = IF Scrolls(x, delta) THEN Clamp(0, offset - delta, Rows - Window) ELSE offset

=============================================================================
