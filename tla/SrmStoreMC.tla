----------------------------- MODULE SrmStoreMC -----------------------------
(***************************************************************************)
(* Small instances of SrmStore for TLC: a header of one byte and signatures *)
(* of one byte, so that the smallest first list has 5 bytes and a later one *)
(* 4.  The messages meet every check of RetrieveSrmFromBuffer.              *)
(***************************************************************************)
EXTENDS SrmStore

Srm(n, v, e, s) == [name |-> n, isSrm |-> TRUE, version |-> v, ends |-> e,
                    size |-> s, authentic |-> TRUE, counted |-> TRUE]

Long == Srm("long", 1, <<10>>, 10)
New == Srm("new", 2, <<6>>, 6)

\* Well formed, of one, two and three generations.
GoodSrms == {Long, New, Srm("two", 1, <<6, 10>>, 10),
             Srm("three", 1, <<6, 10, 14>>, 14)}

BadSrms ==
    {[Srm("foreign", 2, <<6>>, 6) EXCEPT !.isSrm = FALSE],
     [Srm("forged", 2, <<6>>, 6) EXCEPT !.authentic = FALSE],
     [Srm("miscounted", 2, <<6>>, 6) EXCEPT !.counted = FALSE],
     Srm("short", 2, <<6>>, 3), Srm("cut", 2, <<6>>, 5),
     Srm("small", 2, <<5>>, 5), Srm("trailing", 2, <<6>>, 7),
     Srm("nolist", 2, <<6, 6>>, 10), Srm("large", 2, <<16>>, 16)}

MCSrms == GoodSrms \cup BadSrms
StoredSrms == {Long, New}

=============================================================================
