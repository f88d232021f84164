----------------------------- MODULE MCItemLists -----------------------------
EXTENDS ItemLists

L(kind, count, used, room, headers, at) ==
  [kind |-> kind, count |-> count, used |-> used, room |-> room, headers |-> headers, at |-> at]

\* Two entries behind each other, with keys of a and b bytes; the bytes said to
\* be used and the bytes that are there vary.
Keybag(a, b, used, room, n) ==
  LET second == 24 + a
  IN  L("keybag", n, used, room, [p \in {0, second} |-> IF p = 0 THEN a ELSE b],
        [p \in {0, second} |-> p + 24])

KeybagLists ==
  {Keybag(a, b, used, 48 + a + b - cut, n) :
     a \in {0, 7, 512}, b \in {0, 16, 513}, used \in {0, 100, 2000}, cut \in {0, 1, 20}, n \in {0, 2, 3}}

\* Two extended fields: the array of headers, then the data, aligned.
XFields(a, b, used, cut, n) ==
  LET second == 8 + ((a + 7) \div 8) * 8
  IN  L("xfields", n, used, second + b - cut, [p \in {0, 4} |-> IF p = 0 THEN a ELSE b],
        [p \in {0, 4} |-> IF p = 0 THEN 8 ELSE second])

XFieldLists ==
  {XFields(a, b, used, cut, n) : a \in {0, 4, 8}, b \in {8, 13}, used \in {0, 24}, cut \in {0, 1}, n \in {0, 2, 3}}

MCLists == KeybagLists \cup XFieldLists
=============================================================================
