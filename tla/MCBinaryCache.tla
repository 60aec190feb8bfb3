---------------------------- MODULE MCBinaryCache ----------------------------
(* Small instances of BinaryCache.                                         *)
EXTENDS BinaryCache

CONSTANTS ticker, admin
=============================================================================
