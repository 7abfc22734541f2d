------------------------- MODULE MCFsCryptoDownload -------------------------
EXTENDS FsCrypto

DownloadWrites == {<<1, 2>>, <<5, 3>>}
AppendWrites == {<<6, 1>>}
=============================================================================
