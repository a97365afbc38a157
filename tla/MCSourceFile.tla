---------------------------- MODULE MCSourceFile ----------------------------
(* Files of both versions with up to two sources of up to two samples,     *)
(* that declare as much as they hold, or more, or less; lists of one file  *)
(* of any kind, and of two and three files that can be read or are empty.  *)
EXTENDS SourceFile

CONSTANTS Formats, Locations

At(t, x, d, l) == [time |-> t, pos |-> x, dir |-> d, L |-> l]
Of(n, spec, type, radius, samples) ==
  [n |-> n, spec |-> spec, type |-> type, radius |-> radius, samples |-> samples]
Point(t) == Of(1, "sun", "point", None, <<At(t, 2, 0, 3)>>)
Faint == Of(1, "sun", "star", None, <<At(1, 1, 0, -2)>>)
Plane == Of(1, "uv", "plane", 2, <<At(2, -1, 1, 1)>>)
Bare == Of(1, "uv", "plane", None, <<At(0, 0, 1, 1)>>)
Junk == Of(1, "test", "point", None, <<At(0, 0, 1, 1)>>)
Turning == Of(2, "uv", "plane", 1, <<At(0, 0, 1, 1), At(3, 1, 2, 4)>>)
Steady == Of(2, "sun", "plane", 1, <<At(1, 0, 1, 1), At(2, 2, 1, 0)>>)
Varying == Of(2, "sun", "point", None, <<At(0, 0, 1, 1), At(2, 3, 1, -2)>>)
Short == [Varying EXCEPT !.n = 3]
Long == [Varying EXCEPT !.n = 1]
Void == [Point(0) EXCEPT !.n = 0]

UpToTwo(S) == {<<>>} \cup {<<a>> : a \in S} \cup (S \X S)
New(v, n, fmt, loc, c, ds) ==
  [version |-> v, declared |-> n, timefmt |-> fmt, locationfmt |-> loc,
   comments |-> c, sources |-> ds]
OldFiles ==
  {New(1, n, "", "", c, ds) : n \in 0..2, c \in {TRUE},
                              ds \in UpToTwo({Point(0), Faint, Plane, Bare, Junk})}
NewFiles ==
  {New(2, n, fmt, "", FALSE, ds) : n \in 0..2, fmt \in {"tick", "myr"},
      ds \in UpToTwo({Point(1), Bare, Junk, Turning, Steady, Varying, Short, Long, Void})}
  \cup {New(2, 1, fmt, loc, TRUE, <<d>>) : fmt \in Formats, loc \in Locations,
                                           d \in {Varying, Point(2), Plane, Faint}}
Empty == New(0, 0, "", "", TRUE, <<>>)
Good == {New(1, 1, "", "", TRUE, <<Plane, Point(0)>>), Empty,
         New(2, 2, "myr", "relative", TRUE, <<Steady, Varying>>),
         New(2, 0, "tick", "", FALSE, <<>>),
         New(2, 1, "tick", "absolute", FALSE, <<Varying>>)}
MCLists ==
  {<<f>> : f \in OldFiles \cup NewFiles} \cup (Good \X Good) \cup (Good \X Good \X Good)

MCAge == [z \in 0..12 |-> 12 \div (z + 1)]
MCInverse1p == [a \in 0..3 |-> IF a = 0 THEN 1 ELSE 0]
MCPiR2 == [radius \in 1..2 |-> 3 * radius * radius]
MCMyr == [num |-> 3, den |-> 2]
MCEpochAge == <<2, 1>>
MCTickTime == <<1, 2>>
=============================================================================
