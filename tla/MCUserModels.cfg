SPECIFICATION Spec
CONSTANTS
    a = a
    b = b
    m1 = m1
    NoModel = NoModel
    NoRedshift = NoRedshift
    Models = {m1}
    Clients = {a, b}
    Parts <- FileOrder
    Metadata = "metadata"
    ApiWrites = TRUE
    Spectra = {1, 2, 3, 4}
    PathOf <- Paths
    BaseOf <- WithoutFolder
    Supported = {"d/x.dat", "x.dat", "w.dat"}
    Redshifts <- FewRedshifts
    BuiltIn = {"dash", "latent_z"}
    Required = {"latent_z"}
    Limit = 2
SYMMETRY Renamings
INVARIANTS
    BatchTypeOK
    RowsAndFilesAgree
    ResultsAreTheSpectras
