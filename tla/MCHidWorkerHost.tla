--------------------------- MODULE MCHidWorkerHost ---------------------------
(* TLC instances of HidWorkerHost: a splash icon (local), the app's full and partial strip
   frames and a control message.  (Pictures that supersede each other are MCHid's.) *)
EXTENDS HidWorkerHost

Msg(kind, key, bytes, local, patch) ==
    [kind |-> kind, key |-> key, bytes |-> bytes, local |-> local, patch |-> patch]

MCWorkMessages ==
    { Msg("image", "spec0", 1, TRUE, FALSE),
      Msg("touch", NoKey, 1, FALSE, FALSE),
      Msg("touch", NoKey, 1, FALSE, TRUE),
      Msg("control", NoKey, 0, FALSE, FALSE) }
=============================================================================
