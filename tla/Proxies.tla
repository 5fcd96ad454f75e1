---- MODULE Proxies ----
(* Loopers and their proxies (BLooper::_Proxy, src/src/kits/app/Looper.cpp).  *)
(* AndAbove, Root and AndUnder take the proxies as a function, so that they   *)
(* can be compared before and after a step.                                   *)

CONSTANTS
    Loopers,
    None        \* NULL, and nobody

VARIABLE
    fProxy      \* per looper: its proxy, or None

\* The loopers that the walk from l along proxies meets: those in every set
\* that has l and, with a looper, its proxy.
AndAbove(proxy, l) ==
    {a \in Loopers :
        \A S \in SUBSET Loopers :
            (l \in S /\ \A d \in S : proxy[d] # None => proxy[d] \in S) => a \in S}

\* The looper where the walk ends.
Root(proxy, l) == CHOOSE r \in AndAbove(proxy, l) : proxy[r] = None

\* _Proxy()
Proxy(l) == Root(fProxy, l)

\* The loopers under l, and l.
AndUnder(proxy, l) == {d \in Loopers : l \in AndAbove(proxy, d)}

Under(l) == AndUnder(fProxy, l)
====
