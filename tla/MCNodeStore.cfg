SPECIFICATION StoreSpec
CONSTANTS
  Node = {n1, n2}
  Token = {t1}
  Catalog <- Catalogs
  MaxChanges = 2
  MaxFailures = 2
INVARIANTS SyncedCatalogTruthful CatalogInSync
PROPERTIES CatalogConverges
