------------------------------ MODULE MCWorkshop ------------------------------
(* A business at its two forms, or an administrator at the import. *)
EXTENDS Workshop, TLC

CONSTANTS a, b, c, j1, j2, l1

\* The first product has two lines in the file, some without a description.
MCRow(code, history) == [code |-> code, name |-> "raw", history |-> history]
MCFiles   == {<<MCRow(a, <<"raw", "">>), MCRow(b, <<"raw">>), MCRow(c, <<"">>)>>}
MCTwoStep == {<<MCRow(a, <<"raw", "second">>), MCRow(b, <<"raw">>)>>}
MCErrands   == {{"add-step", "biz-request"}, {"import-excel", "overview"}}
===============================================================================
