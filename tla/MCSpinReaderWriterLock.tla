----------------------- MODULE MCSpinReaderWriterLock -----------------------
(* SpinReaderWriterLock for TLC.                                            *)
EXTENDS SpinReaderWriterLock
=============================================================================
