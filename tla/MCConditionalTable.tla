------------------------- MODULE MCConditionalTable -------------------------
(***************************************************************************)
(* Segments from 0 to 1 or from 1 to 0 on [-1, 0], [0, 1] and [1, 2], one    *)
(* of them with its interval in reverse order.                              *)
(***************************************************************************)
EXTENDS CurveTables

MCInputValues == -1 .. 2

MCSegments == {<<-1, 0, -1, 0>>, <<-1, 0, 1, 1>>, <<0, 1, 1, 0>>,
               <<1, 0, -1, 1>>, <<1, 2, 1, -1>>, <<1, 2, -1, 2>>}
=============================================================================
