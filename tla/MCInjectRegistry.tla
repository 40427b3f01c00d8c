------------------------- MODULE MCInjectRegistry -------------------------
\* Two processes, one of them with two threads, and a few calls of each.
EXTENDS InjectRegistry, TLC

CONSTANTS a, b, c, p1, p2, X, Y, Z, fail, sleep

Owner == a :> p1 @@ b :> p1 @@ c :> p2

Each(inA, inB, inC) == a :> inA @@ b :> inB @@ c :> inC

Set(n, act) == Call("set", n, act)
Hit(n) == Call("execute", n, 0)

\* A budget of two that three threads draw on.
Budgets == Each(<<Set(X, fail), Call("frequency", X, 102), Hit(X)>>, <<Hit(X)>>, <<Hit(X)>>)

\* Points set and cleared by everybody, in a table with one place too few.
Points == Each(<<Set(X, fail)>>, <<Set(Y, sleep), Call("clear", Y, 0)>>, <<Set(Z, fail), Call("clear_all", X, 0)>>)

\* A ring that wraps while it is read.
Verified == Each(<<Set(X, fail), Set(Y, sleep), Hit(X), Hit(Y), Hit(Y)>>, << >>, <<Call("verify", X, 0)>>)

\* The registry is taken away under the other process.
Removed == Each(<<Set(X, fail), Call("frequency", X, 50), Hit(X)>>, << >>, <<Set(X, sleep), Call("cleanup", X, 0), Set(X, fail)>>)

Scenarios == {Budgets, Points, Verified, Removed}
=============================================================================
