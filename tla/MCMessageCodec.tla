---------------------------- MODULE MCMessageCodec ----------------------------
(* Small instances of MessageCodec for TLC.                                *)
EXTENDS MessageCodec

(* a, and b with a quote behind it                                         *)
MCNames == {<<97>>, <<98, 34>>}
MCPasswds == {<<92>>, <<122>>}
(* {"i":9}                                                                 *)
MCContents == {<<123, 34, 105, 34, 58, 57, 125>>, <<120>>}
(* " , : space } [ ] 1 e - . \                                             *)
MCAlphabet == {34, 44, 58, 32, 125, 91, 93, 49, 101, 45, 46, 92}
MCStems == {<<byte>> : byte \in MCAlphabet} \cup {
  <<>>,
  <<34, 92, 117, 48, 48>>,                                  (* "\u00       *)
  <<34, 92, 117, 100, 56, 51, 100, 92, 117, 100, 101, 48>>, (* "\ud83d\ude0*)
  <<123, 34, 49, 34>>,                                      (* {"1"        *)
  <<123, 34, 34, 58, 49>>,                                  (* {"":1       *)
  <<91, 34, 32>>,                                           (* ["          *)
  <<91, 91>>,                                               (* [[          *)
  <<239, 187, 191>>,                                        (* the mark    *)
  <<91, 116, 114, 117>>,                                    (* [tru        *)
  <<91, 52, 50, 57, 52, 57>>,                               (* [42949      *)
  <<50, 49, 52, 55, 52, 56, 49>>,                           (* 2147481     *)
  <<123, 34, 34, 58, 49, 44, 34, 97, 34, 58>>,              (* {"":1,"a":  *)
  <<34, 9, 1, 200>>                                         (* bytes to escape *)
}
=============================================================================
