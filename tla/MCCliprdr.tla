----------------------------- MODULE MCCliprdr -----------------------------
(* Model values for Cliprdr: one host text with a bare LF, and the two   *)
(* kinds of remote copy Windows advertises, text (CF_UNICODETEXT and     *)
(* CF_OEMTEXT) and files (FileGroupDescriptorW and CF_HDROP).            *)
EXTENDS Cliprdr

MCHostTexts == {<<"x", "LF">>}
MCTextCopy == <<"UNICODETEXT", "OEMTEXT">>
MCFileCopy == <<"FILELIST", "HDROP">>
MCServerFormatLists == {MCTextCopy, MCFileCopy}
====
