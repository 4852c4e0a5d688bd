---------------------------- MODULE BrowserWindow ----------------------------
(***************************************************************************)
(* The window of the file browser: which entries renderBrowser shows for a *)
(* terminal of a given height (src/internal/tui/host/tui.go).  Entries are *)
(* counted from 0, as in the code.  renderBrowser gets the scroll offset   *)
(* that the keys have left behind, which may fit another height, and       *)
(* clamps it; what it computes is not kept.                                *)
(***************************************************************************)
EXTENDS Integers

CONSTANT MaxFeedVisible    \* the page when no height is known (8 in the code)

\* How many of n entries fit; a height of 0 is not known yet.
Fits(height, n) ==
  LET room == IF height > 0 THEN (IF height - 8 < 1 THEN 1 ELSE height - 8)
              ELSE MaxFeedVisible
  IN  IF room > n THEN n ELSE room

\* The offset that has the cursor in a window of that many entries.
Follow(scroll, idx, visible) ==
  LET up == IF idx < scroll THEN idx ELSE scroll
  IN  IF idx >= up + visible THEN idx - visible + 1 ELSE up

\* The offset of the window that is drawn.
FirstShown(height, n, scroll, idx) ==
  LET visible == Fits(height, n)
      follow == Follow(scroll, idx, visible)
      least == IF follow < 0 THEN 0 ELSE follow
  IN  IF least > n - visible THEN n - visible ELSE least

\* KeyDown: the next entry, and the offset for a page that Update never learns.
Down(n, idx) == IF idx < n - 1 THEN idx + 1 ELSE idx
ScrollDown(n, scroll, idx) ==
  IF Down(n, idx) >= scroll + MaxFeedVisible THEN scroll + 1 ELSE scroll

\* KeyUp
Up(idx) == IF idx > 0 THEN idx - 1 ELSE idx
ScrollUp(scroll, idx) == IF Up(idx) < scroll THEN Up(idx) ELSE scroll

==============================================================================
